---- MODULE Spec2Model ----
(***************************************************************************)
(* k3s-pico-node: the transport connection (src/src/tcp_connection.c), the *)
(* HTTP codec (src/src/http_client.c) and the request orchestrator         *)
(* k3s_request (src/unnamed/part_010, the HTTP-only k3s client), driven by *)
(* the lwIP raw API through cyw43_arch_poll().                             *)
(*                                                                         *)
(* Everything is single-threaded: lwIP callbacks run only inside a poll.   *)
(* A C function that waits is cut at its polls: one action per loop        *)
(* iteration (poll, sleep, the checks after them, and the code up to the   *)
(* next poll or the return).                                               *)
(***************************************************************************)
EXTENDS Integers, Sequences, FiniteSets, TLC

VARIABLES
    conn,       \* tcp_connection_t: the connection object
    net,        \* lwIP and the peer: PCB pool, callback registrations, streams
    now,        \* the clock, in ticks of one sleep_ms(10)
    pc,         \* where the running transport call stands
    ret,        \* return value of the last transport call
    fr,         \* arguments and locals of the running transport call
    hist,       \* history of the current call sequence (observation only)
    rq          \* k3s_request: its arguments, locals and position

vars == <<conn, net, now, pc, ret, fr, hist, rq>>

(***************************************************************************)
(* Bounds of the model.  The sizes and the timeouts of the firmware are    *)
(* scaled down; the code only compares and subtracts them.                 *)
(***************************************************************************)
\* log2 of TCP_RECV_RING_SIZE (2048 in tcp_connection.h:41)
RingBits == 2
\* largest payload, in bytes, of one data-arrival event
MaxChunk == 3
\* MEMP_NUM_TCP_PCB (5 in lwipopts.h:23): PCBs in lwIP's pool
NumPcb == 2
\* CONNECT_TIMEOUT_MS (10000), in ticks
CONNECT_TIMEOUT_TICKS == 2
\* REQUEST_TIMEOUT_MS (30000), in ticks
REQUEST_TIMEOUT_TICKS == 3
\* the 1000 ms of each tcp_connection_recv call of k3s_request, in ticks
RECV_TIMEOUT_TICKS == 1
\* HTTP_RESPONSE_BUFFER_SIZE (4096 in config.h)
HTTP_RESPONSE_BUFFER_SIZE == 48
\* TCP_SND_BUF as the caller of SpecConn sees it (5840 in lwipopts.h:36)
SmallSndBuf == 2
\* calls the caller of SpecConn makes on its connection object
MaxCalls == 4

TCP_RECV_RING_SIZE == 2 ^ RingBits

(***************************************************************************)
(* Program constants.                                                      *)
(***************************************************************************)
TCP_OK == 0
TCP_ERR_INVALID_PARAM == -1
TCP_ERR_DNS == -2
TCP_ERR_CONNECT == -3
TCP_ERR_SEND == -5
TCP_ERR_RECV == -6
TCP_ERR_TIMEOUT == -7
TCP_ERR_MEMORY == -8
TCP_ERR_CLOSED == -9

TCP_MSS == 1460
TCP_SND_BUF == 4 * TCP_MSS
HTTP_REQUEST_BUFFER_SIZE == 2048

\* a null pointer (struct tcp_pcb *, char *)
NULL == 0
\* the byte '\0'
NUL == ""

Pcbs == 1..NumPcb

Min(a, b) == IF a < b THEN a ELSE b

(***************************************************************************)
(* The receive ring buffer (tcp_connection.c:9-22).  The indices are       *)
(* uint16_t and the mask is TCP_RECV_RING_SIZE - 1, a power of two minus   *)
(* one: (head - tail) & mask is (head - tail) modulo the size.             *)
(***************************************************************************)
ring_is_empty(c) == c.recv_head = c.recv_tail

ring_available(c) == (c.recv_head - c.recv_tail) % TCP_RECV_RING_SIZE

ring_free_space(c) == (TCP_RECV_RING_SIZE - 1) - ring_available(c)

(***************************************************************************)
(* tcp_connection_init: memset 0, state IDLE, no PCB, empty ring.          *)
(***************************************************************************)
tcp_connection_init ==
    [pcb |-> NULL,
     recv_ring |-> [i \in 0..(TCP_RECV_RING_SIZE - 1) |-> NUL],
     recv_head |-> 0,
     recv_tail |-> 0,
     state |-> "IDLE",
     error_code |-> 0,
     timeout |-> 0]

(***************************************************************************)
(* The lwIP callbacks, as functions of the connection object they get as   *)
(* their arg.                                                              *)
(***************************************************************************)
\* the inner loop without the test for free space
RECURSIVE RingCopyAll(_, _)
RingCopyAll(c, data) ==
    IF data = <<>>
    THEN c
    ELSE RingCopyAll([c EXCEPT !.recv_ring[c.recv_head] = Head(data),
                               !.recv_head = (c.recv_head + 1) % TCP_RECV_RING_SIZE],
                     Tail(data))

\* the inner loop of tcp_recv_callback over one pbuf's payload
RECURSIVE RingCopy(_, _)
RingCopy(c, data) ==
    IF data = <<>> \/ ring_free_space(c) = 0
    THEN c
    ELSE RingCopy([c EXCEPT !.recv_ring[c.recv_head] = Head(data),
                            !.recv_head = (c.recv_head + 1) % TCP_RECV_RING_SIZE],
                  Tail(data))

\* a callback that copies the first pbuf of the chain only
RingCopyFirst(c, p) == IF p = <<>> THEN c ELSE RingCopy(c, Head(p))

\* the outer loop over the pbuf chain p (a sequence of payloads)
RECURSIVE RingCopyChain(_, _)
RingCopyChain(c, p) ==
    IF p = <<>>
    THEN c
    ELSE LET c1 == RingCopy(c, Head(p))
         IN IF ring_free_space(c1) = 0 THEN c1 ELSE RingCopyChain(c1, Tail(p))

\* p = <<>> stands for p == NULL (the peer closed); err_ok for err == ERR_OK
tcp_recv_callback(c, p, err_ok) ==
    IF ~err_ok \/ p = <<>> THEN c ELSE RingCopyChain(c, p)

tcp_err_callback(c) ==
    [c EXCEPT !.state = "ERROR", !.error_code = TCP_ERR_CONNECT, !.pcb = NULL]

tcp_connected_callback(c, err_ok) ==
    IF ~err_ok
    THEN [c EXCEPT !.state = "ERROR", !.error_code = TCP_ERR_CONNECT]
    ELSE [c EXCEPT !.state = "CONNECTED"]

\* found = FALSE stands for ipaddr == NULL
tcp_dns_found_callback(c, found) ==
    IF ~found
    THEN [c EXCEPT !.state = "ERROR", !.error_code = TCP_ERR_DNS]
    ELSE [c EXCEPT !.state = "DNS_RESOLVED"]

(***************************************************************************)
(* lwIP, as the program sees it.  net.pcbs[p] is the state of PCB p of the *)
(* pool: "free" (in the pool), "closed" (allocated, not connected), "syn"  *)
(* (connecting) or "est" (established).  net.arg[p] says that the          *)
(* callbacks of p are registered with the connection object as their arg.  *)
(* net.dns: a DNS query with the connection object as its arg is pending.  *)
(* net.cap is TCP_SND_BUF and net.sndbuf is tcp_sndbuf() of the            *)
(* connection.  The peer sends one of the streams Responses[r], r in       *)
(* net.rs: net.resp is the one it sends, net.pos bytes of it have arrived; *)
(* net.fin says that its FIN has arrived.  A raw peer (net.raw) sends when  *)
(* it likes and as much as it likes; an HTTP server sends after it got     *)
(* request bytes (net.wrote) and no more than the ring has room for.       *)
(***************************************************************************)
NetInit(cap, rs, raw) ==
    [pcbs |-> [p \in Pcbs |-> "free"],
     arg |-> [p \in Pcbs |-> FALSE],
     dns |-> FALSE,
     cap |-> cap,
     sndbuf |-> 0,
     rs |-> rs,
     raw |-> raw,
     wrote |-> FALSE,
     resp |-> 0,
     pos |-> 0,
     fin |-> FALSE]

\* tcp_new(): the lowest free PCB, or NULL when the pool is exhausted; the
\* rest of the firmware holds `other` PCBs of the pool
tcp_new(n, other) ==
    LET free == {p \in Pcbs : n.pcbs[p] = "free"}
    IN IF Cardinality(Pcbs \ free) + other >= NumPcb
       THEN NULL
       ELSE CHOOSE p \in free : \A q \in free : p <= q

\* the pool after tcp_new() returned p, with tcp_arg/tcp_recv/tcp_err set
NetAlloc(n, p) ==
    [n EXCEPT !.pcbs[p] = "closed", !.arg[p] = TRUE, !.sndbuf = n.cap,
              !.wrote = FALSE, !.resp = 0, !.pos = 0, !.fin = FALSE]

\* tcp_close(p) and tcp_abort(p): the PCB goes back to lwIP, which calls no
\* callback of it with this arg again.  With p == NULL lwIP returns ERR_ARG.
tcp_close(n, p) ==
    IF p = NULL THEN n ELSE [n EXCEPT !.pcbs[p] = "free", !.arg[p] = FALSE]

\* tcp_connect(p) returning ERR_OK: the SYN is queued
tcp_connect(n, p) == [n EXCEPT !.pcbs[p] = "syn"]

(***************************************************************************)
(* The history of the current call sequence, for the properties only:      *)
(* cb: the DNS, connected and error callbacks delivered during connect,    *)
(* and "syn" once tcp_connect() has queued the SYN;                        *)
(* nullop: an lwIP function or macro                                       *)
(* was applied to a NULL PCB; closes: calls of tcp_connection_close;       *)
(* handed: bytes tcp_write accepted in the running send; wr: the last      *)
(* tcp_write (bytes written, tcp_sndbuf before it, bytes then remaining);  *)
(* op: the last transport call made; cause: why the last recv returned;     *)
(* alloc: the PCB that the running connect got from tcp_new(); held: some  *)
(* PCB was still out of the pool when that connect was entered.            *)
(***************************************************************************)
HistInit ==
    [cb |-> {}, nullop |-> FALSE, closes |-> 0, handed |-> 0,
     wr |-> [n |-> 0, avail |-> 0, rem |-> 0], op |-> "none", cause |-> "none",
     pre |-> "none", alloc |-> NULL, held |-> FALSE]

(***************************************************************************)
(* The machine state m = [c, n, h, now, f] on which the steps of a transport  *)
(* call work, and the outcome of a step: the state, where the call stands  *)
(* ("ret": it returned) and the value returned.                            *)
(***************************************************************************)
Machine == [c |-> conn, n |-> net, h |-> hist, now |-> now, f |-> fr]

\* arguments and locals of a transport call: timeout_ms; len and sent of
\* send; buffer_size of recv and the bytes it stored in the caller's buffer
FrInit == [timeout_ms |-> 0, len |-> 0, sent |-> 0, size |-> 0, data |-> <<>>]

Return(m, v) == [m |-> m, pc |-> "ret", ret |-> v]

Wait(m, at) == [m |-> m, pc |-> at, ret |-> 0]

\* a sleep during which the clock stands still
NoSleep(m) == m

\* sleep_ms(10): the clock advances
Sleep(m) == [m EXCEPT !.now = m.now + 1]

\* absolute_time_diff_us(get_absolute_time(), conn->timeout) < 0
TimedOut(m) == m.c.timeout - m.now < 0

\* make_timeout_time_ms(timeout_ms)
make_timeout_time_ms(m, timeout_ms) == m.now + timeout_ms

\* the PCB is neither closed nor forgotten
KeepPcb(m) == m

\* tcp_close(conn->pcb); conn->pcb = NULL;
ClosePcb(m) ==
    [m EXCEPT !.n = tcp_close(m.n, m.c.pcb),
              !.c.pcb = NULL,
              !.h.nullop = m.h.nullop \/ m.c.pcb = NULL]

(***************************************************************************)
(* The responses a peer may send (any prefix of one, then silence, a FIN   *)
(* or a reset).                                                            *)
(***************************************************************************)
CRLF == <<"\r", "\n">>

StatusLine200 == <<"H","T","T","P","/","1",".","1"," ","2","0","0"," ","O","K","\r","\n">>

StatusLine404 == <<"H","T","T","P","/","1",".","1"," ","4","0","4"," ","N","F","\r","\n">>

ContentLength2 == <<"C","o","n","t","e","n","t","-","L","e","n","g","t","h",":"," ","2","\r","\n">>

Responses ==
    << StatusLine200 \o ContentLength2 \o CRLF \o <<"o","k">>,
       StatusLine200 \o CRLF \o <<"o","k">>,
       StatusLine404 \o ContentLength2 \o CRLF \o <<"n","o">>,
       <<"o","o","p","s">>,
       StatusLine200 \o CRLF \o [i \in 1..HTTP_RESPONSE_BUFFER_SIZE |-> "x"],
       <<"a","b","c","d","e">> >>

\* the streams an HTTP server sends, and the one the peer of SpecConn sends
HttpStreams == 1..5

RawStreams == {6}

(***************************************************************************)
(* cyw43_arch_poll(): lwIP runs the callbacks that are due.  Events(m) is  *)
(* the set of states after one callback; Poll(m) after none, one or two.   *)
(***************************************************************************)
Seen(m, kind) == IF m.h.op = "connect" THEN [m EXCEPT !.h.cb = m.h.cb \cup {kind}] ELSE m

PcbEvents(m, p) ==
    (IF m.n.pcbs[p] = "syn"
     THEN { Seen([m EXCEPT !.n.pcbs[p] = "est",
                           !.c = tcp_connected_callback(m.c, TRUE)], "connected"),
            Seen([m EXCEPT !.n.pcbs[p] = "failed",
                           !.c = tcp_connected_callback(m.c, FALSE)], "connect_failed") }
     ELSE {})
    \cup
    (IF m.n.pcbs[p] \in {"syn", "est"}
     THEN { Seen([m EXCEPT !.n.pcbs[p] = "free", !.n.arg[p] = FALSE,
                           !.c = tcp_err_callback(m.c)], "err") }
     ELSE {})
    \cup
    (IF m.n.pcbs[p] = "est" /\ ~m.n.fin /\ (m.n.raw \/ m.n.wrote)
     THEN { [m EXCEPT !.n.fin = TRUE,
                      !.c = tcp_recv_callback(m.c, <<>>, TRUE)] }
          \cup
          { [m EXCEPT !.n.resp = rk[1], !.n.pos = m.n.pos + rk[2],
                      !.c = tcp_recv_callback(m.c,
                                <<SubSeq(Responses[rk[1]], m.n.pos + 1, m.n.pos + rk[2])>>,
                                TRUE)] :
              rk \in {x \in m.n.rs \X (1..MaxChunk) :
                         /\ m.n.resp \in {0, x[1]}
                         /\ m.n.raw \/ x[2] <= ring_free_space(m.c)
                         /\ m.n.pos + x[2] <= Len(Responses[x[1]])} }
     ELSE {})
    \cup
    \* an ACK frees half of the send buffer, or all of it
    (IF m.n.pcbs[p] = "est" /\ m.n.sndbuf < m.n.cap
     THEN { [m EXCEPT !.n.sndbuf = m.n.cap],
            [m EXCEPT !.n.sndbuf = Min(m.n.sndbuf + (m.n.cap + 1) \div 2, m.n.cap)] }
     ELSE {})

DnsEvents(m) ==
    IF m.n.dns
    THEN { Seen([m EXCEPT !.n.dns = FALSE, !.c = tcp_dns_found_callback(m.c, ok)], "dns") :
             ok \in BOOLEAN }
    ELSE {}

Events(m) ==
    DnsEvents(m) \cup UNION { PcbEvents(m, p) : p \in {q \in Pcbs : m.n.arg[q]} }

cyw43_arch_poll(m) ==
    LET one == Events(m)
    IN {m} \cup one \cup UNION { Events(x) : x \in one }

(***************************************************************************)
(* tcp_connection_connect (tcp_connection.c:120-222).                      *)
(***************************************************************************)
\* lines 184-195: start the connection attempt; tcp_connect() may fail at once
ConnectStart(m) ==
    LET m1 == [m EXCEPT !.c.state = "CONNECTING",
                        !.c.timeout = make_timeout_time_ms(m, m.f.timeout_ms)]
    IN IF m1.c.pcb = NULL
       THEN \* tcp_connect(NULL, ...) returns ERR_ARG
            { Return(ClosePcb(m1), TCP_ERR_CONNECT) }
       ELSE { Wait(Seen([m1 EXCEPT !.n = tcp_connect(m1.n, m1.c.pcb)], "syn"), "conn_wait"),
              Return(ClosePcb(m1), TCP_ERR_CONNECT) }

\* lines 120-182, up to the first poll.  is_ip: ipaddr_aton(hostname) holds.
tcp_connection_connect(m, is_ip, other) ==
    LET p == tcp_new(m.n, other)
    IN IF p = NULL
       THEN { Return([m EXCEPT !.c.pcb = NULL], TCP_ERR_MEMORY) }
       ELSE LET m1 == [m EXCEPT !.c.pcb = p, !.n = NetAlloc(m.n, p), !.h.alloc = p,
                                !.h.held = \E q \in Pcbs : m.n.pcbs[q] # "free"]
            IN IF is_ip
               THEN ConnectStart([m1 EXCEPT !.c.state = "DNS_RESOLVED"])
               ELSE LET m2 == [m1 EXCEPT !.c.state = "DNS_RESOLVING",
                                         !.c.timeout = make_timeout_time_ms(m1, m1.f.timeout_ms)]
                    IN \* dns_gethostbyname: ERR_OK (cached), ERR_INPROGRESS, an error
                       ConnectStart([m2 EXCEPT !.c.state = "DNS_RESOLVED"])
                       \cup { Wait([m2 EXCEPT !.n.dns = TRUE], "dns_wait"),
                              Return(ClosePcb(m2), TCP_ERR_DNS) }

\* lines 158-175: one iteration of the DNS wait loop and what follows it
DnsWaitStep(m) ==
    UNION { LET m2 == Sleep(m1)
            IN IF TimedOut(m2)
               THEN { Return([ClosePcb(m2) EXCEPT !.c.state = "ERROR"], TCP_ERR_TIMEOUT) }
               ELSE IF m2.c.state = "DNS_RESOLVING"
               THEN { Wait(m2, "dns_wait") }
               ELSE IF m2.c.state = "ERROR"
               THEN { Return(ClosePcb(m2), TCP_ERR_DNS) }
               ELSE ConnectStart(m2)
          : m1 \in cyw43_arch_poll(m) }

\* lines 198-221: one iteration of the connect wait loop and what follows it
ConnWaitStep(m) ==
    { LET m2 == Sleep(m1)
      IN IF TimedOut(m2)
         THEN Return([ClosePcb(m2) EXCEPT !.c.state = "ERROR"], TCP_ERR_TIMEOUT)
         ELSE IF m2.c.state = "CONNECTING"
         THEN Wait(m2, "conn_wait")
         ELSE IF m2.c.state # "CONNECTED"
         THEN Return(IF m2.c.pcb # NULL THEN ClosePcb(m2) ELSE m2, TCP_ERR_CONNECT)
         ELSE Return(m2, TCP_OK)
    : m1 \in cyw43_arch_poll(m) }

(***************************************************************************)
(* tcp_connection_send (tcp_connection.c:224-277).  has_data: data is not  *)
(* NULL.  After the driver's error callback conn->pcb is NULL and the loop *)
(* goes on: tcp_sndbuf(NULL) reads through a null pointer (on the RP2040   *)
(* the boot ROM: an arbitrary value), and tcp_write(NULL) returns ERR_ARG. *)
(***************************************************************************)
tcp_connection_send(m, has_data) ==
    IF ~has_data \/ m.c.state # "CONNECTED"
    THEN { Return(m, TCP_ERR_INVALID_PARAM) }
    ELSE IF m.c.pcb = NULL
    THEN { Return(m, TCP_ERR_CLOSED) }
    ELSE { Wait([m EXCEPT !.f.sent = 0, !.h.handed = 0,
                          !.c.timeout = make_timeout_time_ms(m, m.f.timeout_ms)],
                "send_loop") }

\* cyw43_arch_poll(); sleep_ms(10); the timeout check; continue
SendRetry(m) ==
    { LET m2 == Sleep(m1)
      IN IF TimedOut(m2) THEN Return(m2, TCP_ERR_TIMEOUT) ELSE Wait(m2, "send_loop")
    : m1 \in cyw43_arch_poll(m) }

\* the send loop writes everything that remains, whatever space there is
to_send_all(len, sent, available) == len - sent

\* uint16_t to_send = (len - sent) < available ? (len - sent) : available;
to_send(len, sent, available) == Min(len - sent, available)

\* one evaluation of the loop condition and, if it holds, of the loop body
SendStep(m) ==
    IF ~(m.f.sent < m.f.len)
    THEN \* tcp_output(conn->pcb); return sent;
         { Return([m EXCEPT !.h.nullop = m.h.nullop \/ m.c.pcb = NULL], m.f.sent) }
    ELSE IF m.c.pcb = NULL
    THEN LET m0 == [m EXCEPT !.h.nullop = TRUE]
         IN SendRetry(m0) \cup { Return(m0, TCP_ERR_SEND) }
    ELSE LET available == m.n.sndbuf
             n == to_send(m.f.len, m.f.sent, available)
         IN IF available = 0
            THEN SendRetry(m)
            ELSE \* tcp_write: ERR_OK, or ERR_MEM (wait and retry)
                 { Wait([m EXCEPT !.f.sent = m.f.sent + n,
                                  !.n.sndbuf = m.n.sndbuf - n,
                                  !.n.wrote = TRUE,
                                  !.h.handed = m.h.handed + n,
                                  !.h.wr = [n |-> n, avail |-> available,
                                            rem |-> m.f.len - m.f.sent]],
                        "send_loop") }
                 \cup SendRetry(m)

(***************************************************************************)
(* tcp_connection_recv (tcp_connection.c:279-314).                         *)
(***************************************************************************)
\* a drain that reads every byte at the same index and moves the tail at the end
RECURSIVE RingDrainStuck(_)
RingDrainStuck(m) ==
    IF Len(m.f.data) < m.f.size /\ ~ring_is_empty(m.c)
    THEN LET m1 == [m EXCEPT !.f.data = Append(m.f.data, m.c.recv_ring[m.c.recv_tail])]
         IN IF Len(m1.f.data) < m1.f.size
            THEN RingDrainStuck(m1)
            ELSE [m1 EXCEPT !.c.recv_tail = (m.c.recv_tail + Len(m1.f.data)) % TCP_RECV_RING_SIZE]
    ELSE m

\* a read loop that empties the ring, whatever the size of the buffer
RECURSIVE RingDrainAll(_)
RingDrainAll(m) ==
    IF ~ring_is_empty(m.c)
    THEN RingDrainAll([m EXCEPT !.f.data = Append(m.f.data, m.c.recv_ring[m.c.recv_tail]),
                                !.c.recv_tail = (m.c.recv_tail + 1) % TCP_RECV_RING_SIZE])
    ELSE m

\* lines 307-313: drain the ring into the caller's buffer
RECURSIVE RingDrain(_)
RingDrain(m) ==
    IF Len(m.f.data) < m.f.size /\ ~ring_is_empty(m.c)
    THEN RingDrain([m EXCEPT !.f.data = Append(m.f.data, m.c.recv_ring[m.c.recv_tail]),
                             !.c.recv_tail = (m.c.recv_tail + 1) % TCP_RECV_RING_SIZE])
    ELSE m

RecvReturn(m, v, why) == Return([m EXCEPT !.h.cause = why], v)

RecvRead(m) == LET m1 == RingDrain(m) IN RecvReturn(m1, Len(m1.f.data), "data")

\* has_buffer: buffer is not NULL
tcp_connection_recv(m, has_buffer) ==
    IF ~has_buffer \/ m.f.size = 0
    THEN { RecvReturn(m, TCP_ERR_INVALID_PARAM, "param") }
    ELSE IF m.c.state # "CONNECTED"
    THEN { RecvReturn(m, TCP_ERR_INVALID_PARAM, "notconn") }
    ELSE IF m.c.pcb = NULL
    THEN { RecvReturn(m, TCP_ERR_CLOSED, "nopcb") }
    ELSE LET m1 == [m EXCEPT !.f.data = <<>>,
                             !.c.timeout = make_timeout_time_ms(m, m.f.timeout_ms)]
         IN IF ring_is_empty(m1.c)
            THEN { Wait(m1, "recv_wait") }
            ELSE { RecvRead(m1) }

\* the value returned at the timeout of the wait loop: return received;
RecvTimeoutValue(m) == Len(m.f.data)

\* lines 292-305: one iteration of the wait loop and what follows it
RecvWaitStep(m) ==
    { LET m2 == Sleep(m1)
      IN IF m2.c.state # "CONNECTED"
         THEN RecvReturn(m2, 0, "state")
         ELSE IF TimedOut(m2)
         THEN RecvReturn(m2, RecvTimeoutValue(m2), "timeout")
         ELSE IF ring_is_empty(m2.c)
         THEN Wait(m2, "recv_wait")
         ELSE RecvRead(m2)
    : m1 \in cyw43_arch_poll(m) }

(***************************************************************************)
(* tcp_connection_close (tcp_connection.c:316-331).                        *)
(***************************************************************************)
\* a close that sets the state and keeps the PCB
close_keeps_pcb(m) == [m EXCEPT !.c.state = "CLOSED", !.h.closes = Min(m.h.closes + 1, 2)]

\* a close that also empties the ring
close_resets_ring(m) ==
    LET m1 == IF m.c.pcb # NULL
              THEN [m EXCEPT !.n = tcp_close(m.n, m.c.pcb), !.c.pcb = NULL]
              ELSE m
    IN [m1 EXCEPT !.c.state = "CLOSED", !.c.recv_head = 0, !.c.recv_tail = 0,
                  !.h.closes = Min(m.h.closes + 1, 2)]

tcp_connection_close(m) ==
    LET m1 == IF m.c.pcb # NULL
              THEN [m EXCEPT !.n = tcp_close(m.n, m.c.pcb), !.c.pcb = NULL]
              ELSE m
    IN [m1 EXCEPT !.c.state = "CLOSED", !.h.closes = Min(m.h.closes + 1, 2)]

(***************************************************************************)
(* The steps of a transport call, as actions.                              *)
(***************************************************************************)
Apply(o) ==
    /\ conn' = o.m.c
    /\ net' = o.m.n
    /\ hist' = o.m.h
    /\ now' = o.m.now
    /\ fr' = o.m.f
    /\ pc' = o.pc
    /\ ret' = o.ret

DnsWaitIter ==
    /\ pc = "dns_wait"
    /\ \E o \in DnsWaitStep(Machine) : Apply(o)
    /\ UNCHANGED rq

ConnWaitIter ==
    /\ pc = "conn_wait"
    /\ \E o \in ConnWaitStep(Machine) : Apply(o)
    /\ UNCHANGED rq

SendIter ==
    /\ pc = "send_loop"
    /\ \E o \in SendStep(Machine) : Apply(o)
    /\ UNCHANGED rq

RecvWaitIter ==
    /\ pc = "recv_wait"
    /\ \E o \in RecvWaitStep(Machine) : Apply(o)
    /\ UNCHANGED rq

(***************************************************************************)
(* C strings.  A buffer is a sequence of characters; the character after   *)
(* its last one is the terminating NUL.  Positions are counted from 1.     *)
(***************************************************************************)
At(s, i) == IF i >= 1 /\ i <= Len(s) THEN s[i] ELSE NUL

RECURSIVE strlen_from(_, _)
strlen_from(s, i) == IF At(s, i) = NUL THEN 0 ELSE 1 + strlen_from(s, i + 1)

\* the C string that starts at position 1 of the buffer
strlen(s) == strlen_from(s, 1)

\* strstr(s + from - 1, pat): the position of the first occurrence, 0 for NULL
strstr(s, from, pat) ==
    LET n == from + strlen_from(s, from) - 1
        hits == {i \in from..(n - Len(pat) + 1) : SubSeq(s, i, i + Len(pat) - 1) = pat}
    IN IF hits = {} THEN 0 ELSE CHOOSE i \in hits : \A j \in hits : i <= j

\* strchr(s, ch)
strchr(s, ch) == strstr(s, 1, <<ch>>)

UpperCase == <<"A","B","C","D","E","F","G","H","I","J","K","L","M",
               "N","O","P","Q","R","S","T","U","V","W","X","Y","Z">>

LowerCase == <<"a","b","c","d","e","f","g","h","i","j","k","l","m",
               "n","o","p","q","r","s","t","u","v","w","x","y","z">>

tolower(ch) ==
    IF \E i \in 1..26 : UpperCase[i] = ch
    THEN LowerCase[CHOOSE i \in 1..26 : UpperCase[i] = ch]
    ELSE ch

Digits == <<"0","1","2","3","4","5","6","7","8","9">>

isdigit(ch) == \E i \in 1..10 : Digits[i] = ch

DigitValue(ch) == (CHOOSE i \in 1..10 : Digits[i] = ch) - 1

isspace(ch) == ch \in {" ", "\t", "\n", "\r"}

RECURSIVE atoi_digits(_, _, _)
atoi_digits(s, i, acc) ==
    IF isdigit(At(s, i)) THEN atoi_digits(s, i + 1, 10 * acc + DigitValue(At(s, i))) ELSE acc

RECURSIVE atoi(_, _)
\* atoi(s + i - 1): white space, an optional sign, digits
atoi(s, i) ==
    IF isspace(At(s, i)) THEN atoi(s, i + 1)
    ELSE IF At(s, i) = "-" THEN 0 - atoi_digits(s, i + 1, 0)
    ELSE IF At(s, i) = "+" THEN atoi_digits(s, i + 1, 0)
    ELSE atoi_digits(s, i, 0)

RECURSIVE strncasecmp_custom(_, _, _, _, _)
\* strncasecmp_custom(s1 + i - 1, s2 + j - 1, n) == 0
strncasecmp_custom(s1, i, s2, j, n) ==
    IF n > 0 /\ At(s1, i) # NUL /\ At(s2, j) # NUL
    THEN IF tolower(At(s1, i)) # tolower(At(s2, j))
         THEN FALSE
         ELSE strncasecmp_custom(s1, i + 1, s2, j + 1, n - 1)
    ELSE n = 0 \/ tolower(At(s1, i)) = tolower(At(s2, j))

(***************************************************************************)
(* http_get_header (http_client.c:145-195).                                *)
(***************************************************************************)
RECURSIVE SkipBlanks(_, _)
SkipBlanks(s, i) == IF At(s, i) \in {" ", "\t"} THEN SkipBlanks(s, i + 1) ELSE i

RECURSIVE ValueEnd(_, _)
ValueEnd(s, i) == IF At(s, i) \in {"\r", "\n", NUL} THEN i ELSE ValueEnd(s, i + 1)

RECURSIVE NextLine(_, _)
NextLine(s, i) ==
    IF At(s, i) = "\n" THEN i + 1
    ELSE IF At(s, i) = NUL THEN i
    ELSE NextLine(s, i + 1)

RECURSIVE GetHeaderFrom(_, _, _, _)
GetHeaderFrom(s, line, header_name, value_buffer_size) ==
    IF At(s, line) = NUL
    THEN [ret |-> -1, value |-> <<>>]
    ELSE IF /\ strncasecmp_custom(s, line, header_name, 1, Len(header_name))
            /\ At(s, line + Len(header_name)) = ":"
         THEN LET value_start == SkipBlanks(s, line + Len(header_name) + 1)
                  value_end == ValueEnd(s, value_start)
                  value_len == IF value_end - value_start >= value_buffer_size
                               THEN value_buffer_size - 1
                               ELSE value_end - value_start
              IN [ret |-> 0, value |-> SubSeq(s, value_start, value_start + value_len - 1)]
         ELSE GetHeaderFrom(s, NextLine(s, line), header_name, value_buffer_size)

http_get_header(response_buffer, header_name, value_buffer_size) ==
    GetHeaderFrom(response_buffer, 1, header_name, value_buffer_size)

(***************************************************************************)
(* http_parse_response (http_client.c:198-272).  body is the position of   *)
(* the first body byte (0: NULL).                                          *)
(***************************************************************************)
ContentLengthColon == <<"C","o","n","t","e","n","t","-","L","e","n","g","t","h",":">>

TransferEncodingColon ==
    <<"T","r","a","n","s","f","e","r","-","E","n","c","o","d","i","n","g",":">>

Chunked == <<"c","h","u","n","k","e","d">>

ResponseInit ==
    [ret |-> 0, status_code |-> 0, content_length |-> 0, chunked |-> FALSE,
     body |-> 0, body_length |-> 0]

\* a header loop that takes the end of the buffer for the end of the headers
HeadersToTheEnd(s, line, r) ==
    LET blank == strstr(s, 1, <<"\r", "\n", "\r", "\n">>)
    IN [r EXCEPT !.body = IF blank = 0 THEN Len(s) + 1 ELSE blank + 4]

RECURSIVE ParseHeaders(_, _, _)
ParseHeaders(s, line, r) ==
    LET line_end == strstr(s, line, CRLF)
    IN IF line_end = 0
       THEN [r EXCEPT !.ret = -1]
       ELSE IF line = line_end
       THEN [r EXCEPT !.body = line_end + 2]
       ELSE LET r1 == IF strncasecmp_custom(s, line, ContentLengthColon, 1, 15)
                      THEN [r EXCEPT !.content_length = atoi(s, line + 15)]
                      ELSE r
                r2 == IF /\ strncasecmp_custom(s, line, TransferEncodingColon, 1, 18)
                         /\ strstr(s, line, Chunked) # 0
                      THEN [r1 EXCEPT !.chunked = TRUE]
                      ELSE r1
            IN ParseHeaders(s, line_end + 2, r2)

http_parse_response(response_buffer, response_length) ==
    IF response_length = 0
    THEN [ResponseInit EXCEPT !.ret = -1]
    ELSE IF strstr(response_buffer, 1, CRLF) = 0
    THEN [ResponseInit EXCEPT !.ret = -1]
    ELSE IF strchr(response_buffer, " ") = 0
    THEN [ResponseInit EXCEPT !.ret = -1]
    ELSE LET r == ParseHeaders(response_buffer, strstr(response_buffer, 1, CRLF) + 2,
                      [ResponseInit EXCEPT
                          !.status_code = atoi(response_buffer, strchr(response_buffer, " ") + 1)])
             header_length == r.body - 1
         IN IF r.ret # 0 THEN r
            ELSE IF response_length > header_length
            THEN [r EXCEPT !.body_length = response_length - header_length]
            ELSE r

(***************************************************************************)
(* http_build_request (http_client.c:19-117).  snprintf stores at most     *)
(* size - 1 characters and returns the length of the whole text; the       *)
(* builder gives up as soon as written + n >= buffer_size, leaving what    *)
(* was stored so far in the buffer.                                        *)
(***************************************************************************)
K3S_SERVER_IP == <<"1","9","2",".","1","6","8",".","8","6",".","2","3","2">>

K3S_SERVER_PORT == 6443

RECURSIVE itoa(_)
\* the text of %d and %zu for a number that is not negative
itoa(n) == IF n < 10 THEN <<Digits[n + 1]>> ELSE itoa(n \div 10) \o <<Digits[(n % 10) + 1]>>

method_to_string(method) ==
    CASE method = "HTTP_METHOD_GET" -> <<"G","E","T">>
      [] method = "HTTP_METHOD_POST" -> <<"P","O","S","T">>
      [] method = "HTTP_METHOD_PATCH" -> <<"P","A","T","C","H">>
      [] OTHER -> <<"G","E","T">>

\* one snprintf(buffer + written, buffer_size - written, ...) and its check
Snprintf(b, buffer_size, text) ==
    IF b.ret < 0
    THEN b
    ELSE LET n == Len(text)
             stored == SubSeq(text, 1, Min(n, buffer_size - b.written - 1))
         IN IF b.written + n >= buffer_size
            THEN [b EXCEPT !.buffer = SubSeq(b.buffer, 1, b.written) \o stored, !.ret = -1]
            ELSE [b EXCEPT !.buffer = SubSeq(b.buffer, 1, b.written) \o text,
                           !.written = b.written + n]

\* a copy that counts the body and stores nothing
MemcpySkip(b, buffer_size, body) ==
    IF b.ret < 0
    THEN b
    ELSE IF b.written + Len(body) >= buffer_size
    THEN [b EXCEPT !.ret = -1]
    ELSE [b EXCEPT !.written = b.written + Len(body)]

\* lines 101-106: the body is copied without a terminator
Memcpy(b, buffer_size, body) ==
    IF b.ret < 0
    THEN b
    ELSE IF b.written + Len(body) >= buffer_size
    THEN [b EXCEPT !.ret = -1]
    ELSE [b EXCEPT !.buffer = SubSeq(b.buffer, 1, b.written) \o body,
                   !.written = b.written + Len(body)]

ApplicationJson == <<"a","p","p","l","i","c","a","t","i","o","n","/","j","s","o","n">>

StrategicMergePatch == <<"a","p","p","l","i","c","a","t","i","o","n","/","s","t","r","a","t","e","g",
        "i","c","-","m","e","r","g","e","-","p","a","t","c","h","+","j","s","o","n">>

\* has_body: body is not NULL; content_type is <<>> for NULL and a buffer
\* that starts with NUL for the empty string: %s prints up to the NUL.  The result is
\* [ret, buffer]: the value returned and the characters stored in the buffer.
http_build_request(buffer_size, method, host, port, path, has_body, body, content_type) ==
    LET b0 == [buffer |-> <<>>, written |-> 0, ret |-> 0]
        b1 == Snprintf(b0, buffer_size, method_to_string(method) \o <<" ">> \o path \o <<" ","H","T",
                "T","P","/","1",".","1","\r","\n">>)
        b2 == Snprintf(b1, buffer_size, <<"H","o","s","t",":"," ">> \o host \o <<":">> \o itoa(port) \o CRLF)
        b3 == Snprintf(b2, buffer_size, <<"U","s","e","r","-","A","g","e","n","t",":"," ","k","3",
                "s","-","p","i","c","o","-","n","o","d","e","/","1",".","0","\r","\n">>)
        b4 == Snprintf(b3, buffer_size, <<"A","c","c","e","p","t",":"," ","a","p","p","l","i","c",
                "a","t","i","o","n","/","j","s","o","n","\r","\n">>)
        b5 == Snprintf(b4, buffer_size, <<"C","o","n","n","e","c","t","i","o","n",":"," ","c","l",
                "o","s","e","\r","\n">>)
        ct == IF content_type # <<>>
              THEN SubSeq(content_type, 1, strlen(content_type))
              ELSE ApplicationJson
        b6 == Snprintf(b5, buffer_size, <<"C","o","n","t","e","n","t","-","T","y","p","e",":",
                " ">> \o ct \o CRLF)
        b7 == Snprintf(b6, buffer_size, <<"C","o","n","t","e","n","t","-","L","e","n","g","t","h",
                ":"," ">> \o itoa(Len(body)) \o CRLF)
        b8 == Snprintf(b7, buffer_size, CRLF)
        b9 == Memcpy(b8, buffer_size, body)
        bg == Snprintf(b5, buffer_size, CRLF)
        b == IF has_body THEN b9 ELSE bg
    IN [ret |-> IF b.ret < 0 THEN -1 ELSE b.written, buffer |-> b.buffer]

(***************************************************************************)
(* k3s_client.c (HTTP-only): k3s_client_init, k3s_client_shutdown,          *)
(* k3s_client_get/post/patch and k3s_request.  rq holds the static          *)
(* client_initialized, the arguments and locals of the running request,    *)
(* where it stands (at), and for the properties: inited (the connection    *)
(* was initialized), exit and cause (how the receive loop ended and why    *)
(* the last recv returned), http_response (the parsed response) and out    *)
(* (the caller's response buffer: set is FALSE until it is written).       *)
(***************************************************************************)
\* the path arguments: "/a", and one that does not fit the request buffer
Paths == << <<"/", "a">>, [i \in 1..HTTP_REQUEST_BUFFER_SIZE |-> "p"] >>

RequestBody == <<"{", "}">>

\* response_size arguments of k3s_client_get
ResponseSizes == {0, 4}

RqInit ==
    [at |-> "none", calls |-> 0, client_initialized |-> FALSE,
     api |-> "none", path |-> 0, has_body |-> FALSE, has_response |-> FALSE,
     response_size |-> 0, ret |-> 0, inited |-> FALSE,
     request_len |-> 0, total_received |-> 0, response_buffer |-> <<>>,
     start_time |-> 0, exit |-> "none", cause |-> "none",
     http_response |-> ResponseInit, out |-> [set |-> FALSE, text |-> <<>>]]

\* the state in which a transport call starts: its arguments, a fresh history
Enter(m, op, f) == [m EXCEPT !.f = f, !.h = [HistInit EXCEPT !.op = op, !.pre = m.c.state]]

\* an outcome of a transport step, with the request record that goes with it
WithRq(outs, r) == { [m |-> o.m, pc |-> o.pc, ret |-> o.ret, rq |-> r] : o \in outs }

\* a cleanup that returns without closing the connection
CleanupNoClose(m, r, v) ==
    { [m |-> m, pc |-> "idle", ret |-> TCP_OK, rq |-> [r EXCEPT !.at = "done", !.ret = v]] }

\* lines 459-477: cleanup: close the connection, free the buffers, return ret
Cleanup(m, r, v) ==
    { [m |-> tcp_connection_close(m), pc |-> "idle", ret |-> TCP_OK,
       rq |-> [r EXCEPT !.at = "done", !.ret = v]] }

\* no status is an HTTP error
never_error_status(status_code) == FALSE

\* line 429: the status is an HTTP error
http_error_status(status_code) == status_code >= 400

\* lines 397-457: after the receive loop: parse, classify, copy the body out
Finish(m, r0) ==
    LET r == [r0 EXCEPT !.cause = m.h.cause]
        parsed == http_parse_response(r.response_buffer, r.total_received)
        r1 == [r EXCEPT !.http_response = parsed]
        copy_len == Min(parsed.body_length, r.response_size - 1)
    IN IF r.total_received = 0
       THEN Cleanup(m, r, -1)
       ELSE IF parsed.ret # 0
       THEN Cleanup(m, r1, parsed.ret)
       ELSE IF http_error_status(parsed.status_code)
       THEN Cleanup(m, r1, -1)
       ELSE IF r.has_response /\ r.response_size > 0
       THEN IF parsed.body # 0 /\ parsed.body_length > 0
            THEN Cleanup(m, [r1 EXCEPT !.out = [set |-> TRUE,
                                 text |-> SubSeq(r.response_buffer, parsed.body,
                                                 parsed.body + copy_len - 1)]], 0)
            ELSE Cleanup(m, [r1 EXCEPT !.out = [set |-> TRUE, text |-> <<>>]], 0)
       ELSE Cleanup(m, r1, 0)

ContentLengthName == <<"C","o","n","t","e","n","t","-","L","e","n","g","t","h">>

\* lines 376-391: the response in the buffer is complete
ResponseComplete(response_buffer, total_received) ==
    LET body_start == strstr(response_buffer, 1, CRLF \o CRLF)
        h == http_get_header(response_buffer, ContentLengthName, 32)
        headers_length == body_start + 4 - 1
    IN /\ body_start # 0
       /\ h.ret = 0
       /\ total_received >= headers_length + atoi(h.value, 1)

\* lines 343-357: the head of the receive loop, up to the first poll of recv
RecvLoop(m, r) ==
    IF ~(r.total_received < HTTP_RESPONSE_BUFFER_SIZE - 1)
    THEN Finish(m, [r EXCEPT !.exit = "full"])
    ELSE IF m.now - r.start_time > REQUEST_TIMEOUT_TICKS
    THEN Cleanup(m, [r EXCEPT !.exit = "deadline"], TCP_ERR_TIMEOUT)
    ELSE WithRq(tcp_connection_recv(
                    Enter(m, "recv",
                          [FrInit EXCEPT !.timeout_ms = RECV_TIMEOUT_TICKS,
                                         !.size = HTTP_RESPONSE_BUFFER_SIZE - r.total_received - 1]),
                    TRUE),
                [r EXCEPT !.at = "recv"])

\* lines 359-395: recv has returned
AfterRecvStep(m, r, received) ==
    IF received < 0
    THEN Cleanup(m, [r EXCEPT !.exit = "error", !.cause = m.h.cause], received)
    ELSE IF received = 0
    THEN Finish(m, [r EXCEPT !.exit = "zero"])
    ELSE LET r1 == [r EXCEPT !.total_received = r.total_received + received,
                             !.response_buffer = r.response_buffer \o m.f.data]
         IN IF ResponseComplete(r1.response_buffer, r1.total_received)
            THEN Finish(m, [r1 EXCEPT !.exit = "complete"])
            ELSE UNION { RecvLoop(m1, r1) : m1 \in cyw43_arch_poll(m) }

\* lines 324-341: send has returned.  Nothing measures time across this
\* point, so the clock is read from here: start_time is 0.
AfterSendStep(m, r, sent) ==
    IF sent < 0
    THEN Cleanup(m, r, sent)
    ELSE \* response_buffer = malloc(HTTP_RESPONSE_BUFFER_SIZE) may fail
         Cleanup(m, r, -1)
         \cup RecvLoop([m EXCEPT !.now = 0],
                        [r EXCEPT !.total_received = 0, !.response_buffer = <<>>,
                                  !.start_time = 0])

\* http_method of the wrappers' method strings (lines 277-287)
http_method(api) ==
    CASE api = "get" -> "HTTP_METHOD_GET"
      [] api = "post" -> "HTTP_METHOD_POST"
      [] api = "patch" -> "HTTP_METHOD_PATCH"

\* lines 290-296
content_type(method, has_body) ==
    IF method = "HTTP_METHOD_PATCH" THEN StrategicMergePatch
    ELSE IF has_body THEN ApplicationJson
    ELSE <<>>

\* lines 261-323: connect has returned; the clock is read from the start
\* of send
AfterConnectStep(m, r, connected) ==
    IF connected # TCP_OK
    THEN Cleanup(m, r, connected)
    ELSE LET b == http_build_request(HTTP_REQUEST_BUFFER_SIZE, http_method(r.api),
                      K3S_SERVER_IP, K3S_SERVER_PORT, Paths[r.path], r.has_body,
                      IF r.has_body THEN RequestBody ELSE <<>>,
                      content_type(http_method(r.api), r.has_body))
         IN \* request_buffer = malloc(HTTP_REQUEST_BUFFER_SIZE) may fail
            Cleanup(m, r, -1)
            \cup
            (IF b.ret < 0
             THEN Cleanup(m, r, -1)
             ELSE WithRq(tcp_connection_send(
                             Enter([m EXCEPT !.now = 0], "send", [FrInit EXCEPT !.timeout_ms = REQUEST_TIMEOUT_TICKS,
                                                             !.len = b.ret]),
                             TRUE),
                         [r EXCEPT !.at = "send", !.request_len = b.ret]))

\* lines 480-505 and 233-260: a wrapper is called.  K3S_SERVER_IP is an
\* address, so ipaddr_aton() holds and no DNS query is made; other: PCBs the
\* rest of the firmware holds.
k3s_request(m, r, other) ==
    IF \/ r.api = "get" /\ (~r.has_response \/ r.response_size <= 0)
       \/ r.api \in {"post", "patch"} /\ ~r.has_body
       \/ ~r.client_initialized
       \/ r.path = 0
    THEN { [m |-> m, pc |-> "idle", ret |-> TCP_OK, rq |-> [r EXCEPT !.at = "done", !.ret = -1]] }
    ELSE WithRq(tcp_connection_connect(
                    Enter([m EXCEPT !.c = tcp_connection_init], "connect",
                          [FrInit EXCEPT !.timeout_ms = CONNECT_TIMEOUT_TICKS]),
                    TRUE, other),
                [r EXCEPT !.at = "connect", !.inited = TRUE])

\* the machine when a wrapper is called: the frame of the previous request is
\* gone, and so are the fields of the PCB it released; the clock is read from
\* here
FreshMachine ==
    [c |-> tcp_connection_init,
     n |-> [net EXCEPT !.sndbuf = 0, !.wrote = FALSE, !.resp = 0, !.pos = 0, !.fin = FALSE],
     h |-> HistInit, now |-> 0, f |-> FrInit]

ApplyRq(o) == Apply(o) /\ rq' = o.rq

K3sRequest ==
    /\ rq.at = "none"
    /\ \E api \in {"get", "post", "patch"}, path \in 0..Len(Paths), has_arg \in BOOLEAN,
          size \in ResponseSizes, other \in 0..NumPcb :
         \E o \in k3s_request(FreshMachine,
                     [RqInit EXCEPT !.client_initialized = rq.client_initialized,
                                    !.api = api,
                                    !.path = path,
                                    !.has_body = api # "get" /\ has_arg,
                                    !.has_response = api = "get" /\ has_arg,
                                    !.response_size = IF api = "get" THEN size ELSE 0],
                     other) :
            ApplyRq(o)

AfterConnect ==
    /\ pc = "ret" /\ rq.at = "connect"
    /\ \E o \in AfterConnectStep(Machine, rq, ret) : ApplyRq(o)

AfterSend ==
    /\ pc = "ret" /\ rq.at = "send"
    /\ \E o \in AfterSendStep(Machine, rq, ret) : ApplyRq(o)

AfterRecv ==
    /\ pc = "ret" /\ rq.at = "recv"
    /\ \E o \in AfterRecvStep(Machine, rq, ret) : ApplyRq(o)

\* line 477: return ret; the caller has the result, the frame is gone
K3sReturn ==
    /\ rq.at = "done"
    /\ Apply([m |-> FreshMachine, pc |-> "idle", ret |-> TCP_OK])
    /\ rq' = [RqInit EXCEPT !.client_initialized = rq.client_initialized]

k3s_client_init ==
    /\ rq.at = "none"
    /\ rq' = [rq EXCEPT !.client_initialized = TRUE]
    /\ UNCHANGED <<conn, net, now, pc, ret, fr, hist>>

k3s_client_shutdown ==
    /\ rq.at = "none"
    /\ rq' = [rq EXCEPT !.client_initialized = FALSE]
    /\ UNCHANGED <<conn, net, now, pc, ret, fr, hist>>

Init ==
    /\ conn = tcp_connection_init
    /\ net = NetInit(TCP_SND_BUF, HttpStreams, FALSE)
    /\ now = 0
    /\ pc = "idle"
    /\ ret = 0
    /\ fr = FrInit
    /\ hist = HistInit
    /\ rq = RqInit

Next ==
    \/ k3s_client_init
    \/ k3s_client_shutdown
    \/ K3sRequest
    \/ K3sReturn
    \/ ConnWaitIter
    \/ AfterConnect
    \/ SendIter
    \/ AfterSend
    \/ RecvWaitIter
    \/ AfterRecv

Spec == Init /\ [][Next]_vars

(***************************************************************************)
(* A caller that uses one connection object through the API of             *)
(* tcp_connection.h in any order.  Each call starts when the previous one  *)
(* has returned; the clock is read from the start of the call.             *)
(***************************************************************************)
\* len arguments of send: nothing, one byte, more than the send buffer holds
SendLens == {0, 1, SmallSndBuf + 1}

\* buffer_size arguments of recv
RecvSizes == {0, 1, TCP_RECV_RING_SIZE}

\* the state at the start of a call: the clock at 0, a fresh history
CallMachine(op, f) == Enter([Machine EXCEPT !.now = 0], op, f)

AtRest == pc \in {"idle", "ret"} /\ rq.calls < MaxCalls

Called == rq' = [rq EXCEPT !.calls = rq.calls + 1]

CallInit ==
    /\ AtRest
    /\ Apply(Return([CallMachine("init", FrInit) EXCEPT !.c = tcp_connection_init], TCP_OK))
    /\ Called

CallConnect ==
    /\ AtRest
    /\ \E is_ip \in BOOLEAN, other \in 0..NumPcb :
         \E o \in tcp_connection_connect(
                     CallMachine("connect", [FrInit EXCEPT !.timeout_ms = CONNECT_TIMEOUT_TICKS]),
                     is_ip, other) :
            Apply(o)
    /\ Called

CallSend ==
    /\ AtRest
    /\ \E len \in SendLens, has_data \in BOOLEAN :
         \E o \in tcp_connection_send(
                     CallMachine("send", [FrInit EXCEPT !.timeout_ms = REQUEST_TIMEOUT_TICKS,
                                                        !.len = len]), has_data) :
            Apply(o)
    /\ Called

CallRecv ==
    /\ AtRest
    /\ \E size \in RecvSizes, has_buffer \in BOOLEAN :
         \E o \in tcp_connection_recv(
                     CallMachine("recv", [FrInit EXCEPT !.timeout_ms = RECV_TIMEOUT_TICKS,
                                                        !.size = size]), has_buffer) :
            Apply(o)
    /\ Called

CallClose ==
    /\ AtRest
    /\ Apply(Return(tcp_connection_close(CallMachine("close", FrInit)), TCP_OK))
    /\ Called


InitConn ==
    /\ conn = tcp_connection_init
    /\ net = NetInit(SmallSndBuf, RawStreams, TRUE)
    /\ now = 0
    /\ pc = "idle"
    /\ ret = 0
    /\ fr = FrInit
    /\ hist = HistInit
    /\ rq = RqInit

NextConn ==
    \/ CallInit
    \/ CallConnect
    \/ CallSend
    \/ CallRecv
    \/ CallClose
    \/ DnsWaitIter
    \/ ConnWaitIter
    \/ SendIter
    \/ RecvWaitIter

SpecConn == InitConn /\ [][NextConn]_vars

(***************************************************************************)
(* The receive ring of the TLS bridge (tls_connection.c:67-138, 237-259;   *)
(* tls_connection_t in kubelet_server.h:85-110).  Same layout as the ring  *)
(* of tcp_connection.c; the arrival callback works on a local copy of the  *)
(* head and tests next_head == tail before it stores a byte.               *)
(***************************************************************************)
TLS_RECV_RING_SIZE == 2 ^ RingBits

MBEDTLS_ERR_SSL_WANT_READ == -26880

MBEDTLS_ERR_SSL_CONN_EOF == -29312

\* tls_connection_init: memset 0 and the assignments after it
tls_connection_init ==
    [pcb |-> NULL,
     recv_ring |-> [i \in 0..(TLS_RECV_RING_SIZE - 1) |-> NUL],
     recv_head |-> 0,
     recv_tail |-> 0,
     state |-> "IDLE",
     last_error |-> 0,
     timeout |-> 0,
     bytes_sent |-> 0,
     bytes_received |-> 0,
     connection_closed |-> FALSE,
     handshake_complete |-> FALSE]

tls_connection_available(c) == (c.recv_head - c.recv_tail) % TLS_RECV_RING_SIZE

\* lines 116-126: the inner loop over one pbuf's payload; s holds the ring
\* and the locals head and copied
RECURSIVE TlsCopyPbuf(_, _, _)
TlsCopyPbuf(c, s, data) ==
    IF data = <<>>
    THEN s
    ELSE LET next_head == (s.head + 1) % TLS_RECV_RING_SIZE
         IN IF next_head = c.recv_tail
            THEN s
            ELSE TlsCopyPbuf(c, [ring |-> [s.ring EXCEPT ![s.head] = Head(data)],
                                 head |-> next_head,
                                 copied |-> s.copied + 1],
                             Tail(data))

\* lines 114-127: the loop over the pbuf chain; the break leaves the inner
\* loop only
RECURSIVE TlsCopyChain(_, _, _)
TlsCopyChain(c, s, p) ==
    IF p = <<>> THEN s ELSE TlsCopyChain(c, TlsCopyPbuf(c, s, Head(p)), Tail(p))

\* tcp_recv_callback of tls_connection.c (lines 94-138)
tls_tcp_recv_callback(c, p, err_ok) ==
    IF ~err_ok \/ p = <<>>
    THEN [c EXCEPT !.connection_closed = TRUE]
    ELSE LET s == TlsCopyChain(c, [ring |-> c.recv_ring, head |-> c.recv_head, copied |-> 0], p)
         IN [c EXCEPT !.recv_ring = s.ring,
                      !.recv_head = s.head,
                      !.bytes_received = c.bytes_received + s.copied]

\* lines 249-257 of bio_recv: copy to_read bytes out, from a local tail
RECURSIVE BioCopy(_, _, _, _)
BioCopy(c, tail, buf, to_read) ==
    IF Len(buf) < to_read
    THEN BioCopy(c, (tail + 1) % TLS_RECV_RING_SIZE, Append(buf, c.recv_ring[tail]), to_read)
    ELSE [c |-> [c EXCEPT !.recv_tail = tail], buf |-> buf, ret |-> to_read]

\* bio_recv (lines 237-259): the connection after it, the bytes stored in
\* buf and the value returned
bio_recv(c, len) ==
    LET available == tls_connection_available(c)
    IN IF available = 0
       THEN [c |-> c, buf |-> <<>>,
             ret |-> IF c.connection_closed
                     THEN MBEDTLS_ERR_SSL_CONN_EOF
                     ELSE MBEDTLS_ERR_SSL_WANT_READ]
       ELSE BioCopy(c, c.recv_tail, <<>>, Min(len, available))

(***************************************************************************)
(* The ring between its producer and its consumer: arrival callbacks and   *)
(* reads in any order, on a connected connection of tcp_connection.c or of *)
(* tls_connection.c.  hist is here the record of what was offered: impl    *)
(* (whose ring it is), produced (bytes offered by arrival events), dropped *)
(* and stored (the bytes a bounded queue of TCP_RECV_RING_SIZE - 1 places  *)
(* takes of them: as many as it has room for), read (the bytes the reads   *)
(* returned, in order), wrapped (the last read went around the end of the  *)
(* array), and shadow: the connection as it would be had the events        *)
(* offered the stored bytes only.                                          *)
(***************************************************************************)
\* bytes offered during one behaviour
MaxOffered == 7
\* pbufs in one chain
MaxPbufs == 2

\* the k-th byte the peer sends
Byte(k) == Digits[(k % 10) + 1]

\* the pbuf chain that offers the bytes after the first `from`, cut as lens says
RECURSIVE Chain(_, _)
Chain(from, lens) ==
    IF lens = <<>>
    THEN <<>>
    ELSE <<[i \in 1..Head(lens) |-> Byte(from + i)]>> \o Chain(from + Head(lens), Tail(lens))

RECURSIVE Flatten(_)
Flatten(p) == IF p = <<>> THEN <<>> ELSE Head(p) \o Flatten(Tail(p))

\* chains of 0 (p == NULL) to MaxPbufs pbufs of 1..MaxChunk bytes each
ChainLens == UNION { [1..k -> 1..MaxChunk] : k \in 0..MaxPbufs }

\* len and buffer_size arguments of the reads
RingReadSizes == 1..TCP_RECV_RING_SIZE

RingHistInit(impl, c) ==
    [impl |-> impl, produced |-> 0, dropped |-> 0, stored |-> <<>>, read |-> <<>>,
     wrapped |-> FALSE, op |-> "none", shadow |-> c]

\* the bytes stored and not yet read
Queue(h) == SubSeq(h.stored, Len(h.read) + 1, Len(h.stored))

\* the arrival callback of the connection whose ring it is
ArrivalCallback(impl, c, p) ==
    IF impl = "tcp" THEN tcp_recv_callback(c, p, TRUE) ELSE tls_tcp_recv_callback(c, p, TRUE)

\* the record after an event offered chain p
Offered(h, p) ==
    LET flat == Flatten(p)
        room == (TCP_RECV_RING_SIZE - 1) - Len(Queue(h))
        k == Min(Len(flat), room)
    IN [h EXCEPT !.produced = h.produced + Len(flat),
                 !.dropped = h.dropped + (Len(flat) - k),
                 !.stored = h.stored \o SubSeq(flat, 1, k),
                 !.op = "arrive",
                 !.shadow = IF k = 0 /\ p # <<>>
                            THEN h.shadow
                            ELSE ArrivalCallback(h.impl, h.shadow,
                                                 IF p = <<>> THEN <<>> ELSE <<SubSeq(flat, 1, k)>>)]

\* a data-arrival event on the connection of tcp_connection.c
TcpArrive ==
    /\ hist.impl = "tcp"
    /\ \E lens \in ChainLens :
         LET p == Chain(hist.produced, lens)
         IN /\ hist.produced + Len(Flatten(p)) <= MaxOffered
            /\ conn' = tcp_recv_callback(conn, p, TRUE)
            /\ hist' = Offered(hist, p)
    /\ UNCHANGED <<net, now, pc, ret, fr, rq>>

\* tcp_connection_recv with bytes in the ring: it returns without a poll
TcpRead ==
    /\ hist.impl = "tcp"
    /\ ~ring_is_empty(conn)
    /\ \E size \in RingReadSizes :
         LET f == [FrInit EXCEPT !.timeout_ms = RECV_TIMEOUT_TICKS, !.size = size]
             call(c) == tcp_connection_recv(
                            [c |-> c, n |-> net, h |-> HistInit, now |-> now, f |-> f], TRUE)
         IN \E o \in call(conn), s \in call(hist.shadow) :
              /\ conn' = o.m.c
              /\ fr' = o.m.f
              /\ pc' = o.pc
              /\ ret' = o.ret
              /\ hist' = [hist EXCEPT !.read = hist.read \o o.m.f.data,
                                      !.wrapped = o.m.c.recv_tail < conn.recv_tail,
                                      !.op = "read",
                                      !.shadow = s.m.c]
    /\ UNCHANGED <<net, now, rq>>

\* a data-arrival event on the connection of tls_connection.c
TlsArrive ==
    /\ hist.impl = "tls"
    /\ \E lens \in ChainLens :
         LET p == Chain(hist.produced, lens)
         IN /\ hist.produced + Len(Flatten(p)) <= MaxOffered
            /\ conn' = tls_tcp_recv_callback(conn, p, TRUE)
            /\ hist' = Offered(hist, p)
    /\ UNCHANGED <<net, now, pc, ret, fr, rq>>

\* mbedtls calls bio_recv
TlsRead ==
    /\ hist.impl = "tls"
    /\ \E len \in RingReadSizes :
         LET o == bio_recv(conn, len)
         IN /\ conn' = o.c
            /\ fr' = [FrInit EXCEPT !.size = len, !.data = o.buf]
            /\ pc' = "ret"
            /\ ret' = o.ret
            /\ hist' = [hist EXCEPT !.read = hist.read \o o.buf,
                                    !.wrapped = o.c.recv_tail < conn.recv_tail,
                                    !.op = "read",
                                    !.shadow = bio_recv(hist.shadow, len).c]
    /\ UNCHANGED <<net, now, rq>>

InitRing ==
    /\ \E impl \in {"tcp", "tls"} :
         /\ conn = IF impl = "tcp"
                   THEN [tcp_connection_init EXCEPT !.state = "CONNECTED", !.pcb = 1]
                   ELSE [tls_connection_init EXCEPT !.state = "READY", !.pcb = 1,
                                                    !.handshake_complete = TRUE]
         /\ hist = RingHistInit(impl, conn)
    /\ net = NetInit(TCP_SND_BUF, RawStreams, TRUE)
    /\ now = 0
    /\ pc = "idle"
    /\ ret = 0
    /\ fr = FrInit
    /\ rq = RqInit

NextRing ==
    \/ TcpArrive
    \/ TcpRead
    \/ TlsArrive
    \/ TlsRead

SpecRing == InitRing /\ [][NextRing]_vars

(***************************************************************************)
(* Properties of the transport connection under SpecConn.                  *)
(***************************************************************************)
\* a transport call has returned
Returned(op) == pc = "ret" /\ hist.op = op

\* C7: a receive on a connected connection returns a positive count when it
\* delivers data, returns 0 only when the peer has closed the connection
\* gracefully, and at its deadline, with no data and no close of the peer,
\* returns a negative code, never 0.
C7_RecvResult ==
    (Returned("recv") /\ hist.pre = "CONNECTED" /\ hist.cause \notin {"param", "nopcb"}) =>
        /\ hist.cause = "data" => ret > 0
        /\ ret = 0 => net.fin
        /\ hist.cause = "timeout" /\ ~net.fin => ret < 0

\* C8: send returns a non-negative result only when all len bytes were
\* accepted by tcp_write, each tcp_write taking min(remaining, available);
\* with no space it polls, sleeps and tries again, or returns
\* TCP_ERR_TIMEOUT once the deadline has passed; a partial write is never
\* reported as success.
C8_SendAllOrError ==
    /\ [](Returned("send") /\ ret >= 0 => hist.handed = fr.len /\ ret = fr.len)
    /\ [](hist.op = "send" => /\ hist.wr.n = Min(hist.wr.rem, hist.wr.avail)
                              /\ hist.handed = fr.sent
                              /\ fr.sent <= fr.len)
    /\ [](pc = "send_loop" => ~TimedOut(Machine))
    /\ [][(pc = "send_loop" /\ fr.sent < fr.len /\ conn.pcb # NULL /\ net.sndbuf = 0) =>
             /\ now' = now + 1
             /\ fr'.sent = fr.sent
             /\ \/ pc' = "send_loop"
                \/ pc' = "ret" /\ ret' = TCP_ERR_TIMEOUT /\ TimedOut(Machine)']_vars

\* a send of more than the send buffer holds returned success: it waited for
\* space at least once
C8_Witness ==
    Returned("send") /\ hist.pre = "CONNECTED" /\ ret = net.cap + 1 /\ now > 0

\* C9: on a connection in state ERROR or CLOSED every call of connect, send,
\* recv and close returns at once and leaves conn->pcb and the PCBs of lwIP
\* as they were.
C9_NoHandleUseAfterErrorOrClosed ==
    [][(CallConnect \/ CallSend \/ CallRecv \/ CallClose) /\ conn.state \in {"ERROR", "CLOSED"} =>
          /\ pc' = "ret"
          /\ conn'.pcb = conn.pcb
          /\ net'.pcbs = net.pcbs]_vars

\* C10: from every state close() ends in state CLOSED with conn->pcb NULL and
\* the PCB it held back in the pool; a second close() changes nothing of the
\* connection or of lwIP.
C10_CloseIdempotent ==
    [][CallClose =>
          /\ conn'.state = "CLOSED"
          /\ conn'.pcb = NULL
          /\ conn.pcb # NULL => net'.pcbs[conn.pcb] = "free"
          /\ ~hist'.nullop
          /\ (hist.op = "close" /\ pc = "ret") => conn' = conn /\ net' = net]_vars

\* a second close() in a row has returned
C10_Witness ==
    Returned("close") /\ hist.pre = "CLOSED" /\ hist.closes = 1 /\ conn.pcb = NULL

\* C11: when close() has returned, the receive ring is empty with both
\* indices at their initial value 0: no byte that arrived on the closed
\* connection and was not read is left in it.
C11_CloseResetsRing ==
    Returned("close") => ring_is_empty(conn) /\ conn.recv_head = 0 /\ conn.recv_tail = 0

\* the place of a state on the path IDLE, DNS_RESOLVING, DNS_RESOLVED,
\* CONNECTING, CONNECTED
StateRank(s) ==
    CASE s = "IDLE" -> 0
      [] s = "DNS_RESOLVING" -> 1
      [] s = "DNS_RESOLVED" -> 2
      [] s = "CONNECTING" -> 3
      [] s = "CONNECTED" -> 4
      [] OTHER -> 5

\* C16: except by tcp_connection_init, the state of a connection changes
\* only forward along IDLE, DNS_RESOLVING, DNS_RESOLVED, CONNECTING,
\* CONNECTED, or into ERROR or CLOSED: it never goes back to a state it has
\* left.
C16_MonotonicStates ==
    [][(conn'.state # conn.state /\ ~CallInit) =>
          \/ StateRank(conn'.state) > StateRank(conn.state)
          \/ conn'.state \in {"ERROR", "CLOSED"}]_vars

\* C17: a connect call on a connection that holds a PCB allocates no second
\* PCB and leaves conn->pcb as it is.
C17_OneAttemptInFlight ==
    [][(CallConnect /\ conn.pcb # NULL) =>
          /\ conn'.pcb = conn.pcb
          /\ \A p \in Pcbs : net.pcbs[p] = "free" => net'.pcbs[p] = "free"]_vars

\* C18: when a connect on an idle connection has put it into state ERROR (a
\* failed DNS or connected callback, the driver's error callback, a timeout
\* of the DNS or the connect phase), a cause is recorded in
\* conn->error_code and the PCB has been released: conn->pcb is NULL and no
\* PCB of the pool is still registered with the connection.
C18_ErrorRecordsCauseAndReleases ==
    (conn.state = "ERROR" /\ hist.op = "connect" /\ hist.pre = "IDLE") =>
        /\ conn.error_code # TCP_OK
        /\ conn.pcb = NULL
        /\ \A p \in Pcbs : ~net.arg[p]

(***************************************************************************)
(* Properties of the receive ring under SpecRing.                          *)
(***************************************************************************)
\* ring_available() or tls_connection_available(), as the ring is the one or
\* the other's
Available(c) ==
    IF hist.impl = "tcp" THEN ring_available(c) ELSE tls_connection_available(c)

\* the bytes in the array from index i up to the head, in index order
RECURSIVE RingContent(_, _)
RingContent(c, i) ==
    IF i = c.recv_head
    THEN <<>>
    ELSE <<c.recv_ring[i]>> \o RingContent(c, (i + 1) % TCP_RECV_RING_SIZE)

Unread(c) == RingContent(c, c.recv_tail)

IsPrefix(s, t) == Len(s) <= Len(t) /\ s = SubSeq(t, 1, Len(s))

\* C12: after any sequence of arrival callbacks and reads the available
\* count (head - tail) mod capacity is the number of bytes stored and not
\* yet read and is at most capacity - 1; the ring reads as empty exactly when
\* no such byte exists, so a full ring is never taken for an empty one.
C12_OneSlotFree ==
    /\ Available(conn) <= TCP_RECV_RING_SIZE - 1
    /\ Available(conn) = Len(Queue(hist))
    /\ (conn.recv_head = conn.recv_tail) <=> (Queue(hist) = <<>>)
    /\ hist.impl = "tcp" =>
           ring_free_space(conn) = (TCP_RECV_RING_SIZE - 1) - Len(Queue(hist))

\* the ring is full after an event that lost bytes, reads having gone before
C12_Witness ==
    /\ hist.op = "arrive"
    /\ hist.dropped > 0
    /\ hist.read # <<>>
    /\ Available(conn) = TCP_RECV_RING_SIZE - 1

\* C13: the bytes the reads return are, in order and value and without
\* repetition, a prefix of the bytes the arrival callback stored; what is in
\* the ring is the rest of them; each read returns the first
\* min(size, available) of the unread bytes, so a write followed at once by a
\* read of its length returns the written bytes, also across the end of the
\* array.
C13_Fifo ==
    /\ [](IsPrefix(hist.read, hist.stored))
    /\ [](Unread(conn) = Queue(hist))
    /\ [][(hist'.op = "read" /\ ret' >= 0) =>
             /\ fr'.data = SubSeq(Queue(hist), 1, Min(fr'.size, Len(Queue(hist))))
             /\ ret' = Len(fr'.data)
             /\ hist'.stored = hist.stored]_vars

\* a read took all the bytes of the ring, two or more, going around the end
\* of the array
C13_Witness ==
    /\ hist.op = "read"
    /\ hist.wrapped
    /\ Len(fr.data) >= 2
    /\ conn.recv_head = conn.recv_tail
    /\ conn.recv_tail # 0

\* C14: bytes offered = bytes read + bytes dropped + bytes available, in
\* every state; an arrival event leaves the tail and the unread bytes as
\* they were and adds behind them, so with the ring full it adds nothing and
\* overwrites nothing.
C14_OverflowAccounting ==
    /\ [](hist.produced = Len(hist.read) + hist.dropped + Available(conn))
    /\ [](hist.impl = "tls" => conn.bytes_received = Len(hist.stored))
    /\ [][hist'.op = "arrive" =>
             /\ conn'.recv_tail = conn.recv_tail
             /\ IsPrefix(Unread(conn), Unread(conn'))
             /\ Available(conn) = TCP_RECV_RING_SIZE - 1 => conn'.recv_ring = conn.recv_ring]_vars

\* bytes were dropped, bytes were read and bytes are waiting
C14_Witness ==
    /\ hist.dropped > 0
    /\ hist.read # <<>>
    /\ Available(conn) > 0
    /\ hist.op = "arrive"

\* C15: once the arrival callback has discarded a byte, the connection
\* object shows it: it differs from the object the same events without the
\* discarded bytes would have left; and the connection is not in ERROR for
\* the drop.
C15_DropIndicator ==
    /\ hist.dropped > 0 => conn # hist.shadow
    /\ conn.state # "ERROR"

(***************************************************************************)
(* Properties of k3s_request under Spec.                                   *)
(***************************************************************************)
\* a request is running
Running == rq.at \in {"connect", "send", "recv"}

Done == rq.at = "done"

\* C1: when a request that initialized its connection returns, whatever the
\* outcome, tcp_connection_close() has been called on the connection, its
\* pcb is NULL and no PCB of the pool is left allocated.
C1_ClosedOnEveryReturn ==
    (Done /\ rq.inited) =>
        /\ hist.closes >= 1
        /\ conn.state = "CLOSED"
        /\ conn.pcb = NULL
        /\ \A p \in Pcbs : net.pcbs[p] = "free" /\ ~net.arg[p]

\* a request that got an HTTP error status has returned
C1_Witness == Done /\ rq.inited /\ rq.exit = "complete" /\ rq.http_response.status_code = 404

\* the connect attempt was started and the driver delivered neither the
\* connected callback nor the error callback
PeerSilent ==
    /\ hist.op = "connect"
    /\ "syn" \in hist.cb
    /\ hist.cb \cap {"connected", "connect_failed", "err"} = {}

\* C2: if the peer never completes the connect phase, connect returns
\* TCP_ERR_TIMEOUT, and only after the connect deadline has passed; the
\* request returns that code, and the PCB is released, so that tcp_new()
\* succeeds again.
C2_ConnectTimeout ==
    /\ (pc = "ret" /\ PeerSilent) =>
           /\ ret = TCP_ERR_TIMEOUT
           /\ now > CONNECT_TIMEOUT_TICKS
           /\ conn.pcb = NULL
           /\ \A p \in Pcbs : net.pcbs[p] = "free"
    /\ (Done /\ PeerSilent) =>
           /\ rq.ret = TCP_ERR_TIMEOUT
           /\ conn.pcb = NULL
           /\ tcp_new(net, 0) # NULL

C2_Witness == Done /\ PeerSilent /\ rq.ret = TCP_ERR_TIMEOUT

\* what a wait loop has left: the ticks to its deadline
Slack == conn.timeout - now + 1

\* a measure of the work a running request has left
Rank ==
    CASE rq.at = "connect" /\ pc = "conn_wait" -> 50000 + Slack
      [] rq.at = "connect" -> 40000
      [] rq.at = "send" /\ pc = "send_loop" -> 30000 + (fr.len - fr.sent) + Slack
      [] rq.at = "send" -> 20000
      [] rq.at = "recv" ->
            (HTTP_RESPONSE_BUFFER_SIZE - rq.total_received) * (RECV_TIMEOUT_TICKS + 4)
               + (IF pc = "recv_wait" THEN Slack + 1 ELSE 0)
      [] OTHER -> 0

NoDeclaredLength == http_get_header(rq.response_buffer, ContentLengthName, 32).ret # 0

\* C4: the request stops receiving and goes on to parse only when the
\* response is complete: all of header length + Content-Length bytes are
\* there, or the peer closed and no length was declared.  (The other way
\* out of the loop is the overall deadline, which does not parse.)
C4_ParsesOnlyWhenComplete ==
    (Done /\ rq.exit \in {"complete", "zero", "full"} /\ rq.total_received > 0) =>
        \/ ResponseComplete(rq.response_buffer, rq.total_received)
        \/ net.fin /\ NoDeclaredLength

\* C5: when the peer closed after headers that declare a Content-Length and
\* before that many body bytes arrived, the request fails and hands no body
\* to the caller.
C5_TruncatedBodyFails ==
    (/\ Done
     /\ net.fin
     /\ strstr(rq.response_buffer, 1, CRLF \o CRLF) # 0
     /\ ~NoDeclaredLength
     /\ ~ResponseComplete(rq.response_buffer, rq.total_received)) =>
        rq.ret < 0 /\ ~rq.out.set

\* a complete response with an HTTP error status was received and parsed
ErrorResponse ==
    /\ Done
    /\ rq.exit = "complete"
    /\ rq.http_response.ret = 0
    /\ rq.http_response.status_code >= 400

PhaseEdges ==
    { <<"none", "connect">>, <<"none", "done">>, <<"connect", "send">>,
      <<"connect", "done">>, <<"send", "recv">>, <<"send", "done">>,
      <<"recv", "done">>, <<"done", "none">> }

\* the order of the phases: connect, build and send, receive, then parse and
\* close in the step that ends the request; each phase is entered at most
\* once; send starts only after connect returned TCP_OK and the request
\* was built, before any byte was written; receive starts only after send
\* returned the whole length; a phase that reports a failure ends the
\* request with that result, after close
PhaseOrder ==
    /\ [][rq'.at # rq.at => <<rq.at, rq'.at>> \in PhaseEdges]_vars
    /\ [](net.wrote => rq.at \in {"send", "recv", "done"})
    /\ [][(rq'.at = "send" /\ rq.at # "send") =>
             /\ rq.at = "connect" /\ ret = TCP_OK /\ conn.state = "CONNECTED"
             /\ rq'.request_len > 0
             /\ fr'.len = rq'.request_len
             /\ ~net.wrote /\ ~net'.wrote]_vars
    /\ [][(rq'.at = "recv" /\ rq.at # "recv") =>
             /\ rq.at = "send"
             /\ ret = rq.request_len
             /\ hist.handed = rq.request_len]_vars
    /\ [][(Running /\ pc = "ret" /\ (ret < 0 \/ (rq.at = "connect" /\ ret # TCP_OK))) =>
             /\ rq'.at = "done"
             /\ rq'.ret = ret
             /\ hist'.closes = 1
             /\ conn'.state = "CLOSED"
             /\ ~rq'.out.set]_vars
    /\ [](Done /\ rq.inited => hist.closes = 1)

\* C19: the phases of a request run in the order connect, build, send,
\* receive, parse, close, each at most once; nothing is sent before connect
\* succeeded and the request was built, nothing is received before the
\* request was sent in full; a failure in any phase (also one the driver
\* reports through its error callback while the request waits) skips the
\* later phases except close and is returned to the caller, with no retry.
C19_PhasesInOrder ==
    /\ PhaseOrder
    /\ [](Done /\ conn.error_code # TCP_OK => rq.ret # 0 /\ ~rq.out.set)

\* C28: k3s_client_get, k3s_client_post and k3s_client_patch return 0 on
\* success and -1 on every error, whichever phase failed: a request never
\* ends with another value.
C28_ReturnsZeroOrMinusOne == Done => rq.ret \in {0, -1}

(***************************************************************************)
(* http_build_request by itself: the arguments are drawn at the start, one *)
(* call is made.  fr holds the arguments and, after the call, the bytes    *)
(* stored in the buffer; ret the value returned.                           *)
(***************************************************************************)
\* length of the longest body
MaxBodyLen == 12

\* method arguments: the three of http_method_t and a value outside of it
BuildMethods == {"HTTP_METHOD_GET", "HTTP_METHOD_POST", "HTTP_METHOD_PATCH", "HTTP_METHOD_3"}

BuildPaths == { <<"/">>, <<"/", "a", "p", "i", "/", "v", "1">> }

\* bodies: empty, two bytes, ten or more (a Content-Length of two digits)
BuildBodies == { <<>>, RequestBody, [i \in 1..MaxBodyLen |-> "b"] }

\* content types: NULL, the empty string, and the two the client uses
BuildContentTypes == { <<>>, <<NUL>>, ApplicationJson, StrategicMergePatch }

BuildPorts == {80, K3S_SERVER_PORT}

\* buffer sizes: too small for the request line, around the length of the
\* shortest request, enough for every header and not for every body, enough
BuildSizes == {16, 119, 120, 200, HTTP_REQUEST_BUFFER_SIZE}

BuildArgs ==
    [buffer_size : BuildSizes, method : BuildMethods, port : BuildPorts,
     path : BuildPaths, has_body : BOOLEAN, body : BuildBodies,
     content_type : BuildContentTypes, buffer : {<<>>}]

InitBuild ==
    /\ fr \in {a \in BuildArgs : ~a.has_body => a.body = <<>>}
    /\ conn = tcp_connection_init
    /\ net = NetInit(TCP_SND_BUF, HttpStreams, FALSE)
    /\ now = 0
    /\ pc = "idle"
    /\ ret = 0
    /\ hist = HistInit
    /\ rq = RqInit

BuildRequest ==
    /\ pc = "idle"
    /\ LET b == http_build_request(fr.buffer_size, fr.method, K3S_SERVER_IP, fr.port,
                                   fr.path, fr.has_body, fr.body, fr.content_type)
       IN /\ ret' = b.ret
          /\ fr' = [fr EXCEPT !.buffer = b.buffer]
    /\ pc' = "ret"
    /\ hist' = [hist EXCEPT !.op = "build"]
    /\ UNCHANGED <<conn, net, now, rq>>

NextBuild == BuildRequest

SpecBuild == InitBuild /\ [][NextBuild]_vars

(***************************************************************************)
(* Properties of http_build_request under SpecBuild.                       *)
(***************************************************************************)
HttpVersionLine ==
    <<" ", "H", "T", "T", "P", "/", "1", ".", "1", "\r", "\n">>

HostColon ==
    <<"H", "o", "s", "t", ":", " ">>

UserAgentLine ==
    <<"U", "s", "e", "r", "-", "A", "g", "e", "n", "t", ":", " ", "k", "3",
      "s", "-", "p", "i", "c", "o", "-", "n", "o", "d", "e", "/", "1", ".",
      "0", "\r", "\n">>

AcceptLine ==
    <<"A", "c", "c", "e", "p", "t", ":", " ", "a", "p", "p", "l", "i", "c",
      "a", "t", "i", "o", "n", "/", "j", "s", "o", "n", "\r", "\n">>

ConnectionLine ==
    <<"C", "o", "n", "n", "e", "c", "t", "i", "o", "n", ":", " ", "c", "l",
      "o", "s", "e", "\r", "\n">>

ContentTypeColon ==
    <<"C", "o", "n", "t", "e", "n", "t", "-", "T", "y", "p", "e", ":", " ">>

ContentLengthColonSp ==
    <<"C", "o", "n", "t", "e", "n", "t", "-", "L", "e", "n", "g", "t", "h",
      ":", " ">>

\* the name of a method of http_method_t
MethodName(method) ==
    CASE method = "HTTP_METHOD_POST" -> <<"P", "O", "S", "T">>
      [] method = "HTTP_METHOD_PATCH" -> <<"P", "A", "T", "C", "H">>
      [] OTHER -> <<"G", "E", "T">>

\* decimal digits of n, most significant first
RECURSIVE Decimal(_)
Decimal(n) ==
    LET d == <<"0", "1", "2", "3", "4", "5", "6", "7", "8", "9">>[(n % 10) + 1]
    IN IF n < 10 THEN <<d>> ELSE Append(Decimal(n \div 10), d)

\* the request the arguments a describe
ExpectedRequest(a) ==
    MethodName(a.method) \o <<" ">> \o a.path \o HttpVersionLine
    \o HostColon \o K3S_SERVER_IP \o <<":">> \o Decimal(a.port) \o CRLF
    \o UserAgentLine
    \o AcceptLine
    \o ConnectionLine
    \o (IF a.has_body
        THEN ContentTypeColon
             \o (IF a.content_type = <<>> THEN ApplicationJson
                 ELSE IF a.content_type = <<NUL>> THEN <<>>
                 ELSE a.content_type) \o CRLF
             \o ContentLengthColonSp \o Decimal(Len(a.body)) \o CRLF
        ELSE <<>>)
    \o CRLF
    \o a.body

\* the first position at which pat occurs in s, 0 if there is none
Find(s, pat) ==
    LET hits == {i \in 1..(Len(s) - Len(pat) + 1) : SubSeq(s, i, i + Len(pat) - 1) = pat}
    IN IF hits = {} THEN 0 ELSE CHOOSE i \in hits : \A j \in hits : i <= j

\* C20: a successful build leaves in the buffer the request line, the
\* headers Host, User-Agent, Accept and Connection, then Content-Type and
\* Content-Length exactly when a body is given, the Content-Length being the
\* length of the body (also as the codec's own header lookup and atoi read
\* it back), an empty line and the body; it returns the number of bytes it
\* produced, which is less than the buffer size.
C20_BuildFormat ==
    (pc = "ret" /\ hist.op = "build" /\ ret >= 0) =>
        /\ fr.buffer = ExpectedRequest(fr)
        /\ ret = Len(fr.buffer)
        /\ ret < fr.buffer_size
        /\ (Find(fr.buffer, ContentLengthColon) # 0) <=> fr.has_body
        /\ (Find(fr.buffer, ContentTypeColon) # 0) <=> fr.has_body
        /\ fr.has_body =>
              LET h == http_get_header(fr.buffer, ContentLengthName, 32)
              IN h.ret = 0 /\ atoi(h.value, 1) = Len(fr.body)
        /\ LET body_start == Find(fr.buffer, CRLF \o CRLF)
           IN /\ body_start # 0
              /\ SubSeq(fr.buffer, body_start + 4, Len(fr.buffer)) = fr.body

\* a PATCH with a body of ten bytes or more was built
C20_Witness ==
    /\ pc = "ret" /\ hist.op = "build" /\ ret > 0
    /\ fr.method = "HTTP_METHOD_PATCH"
    /\ fr.has_body
    /\ Len(fr.body) >= 10

\* a build has returned a request
Built == pc = "ret" /\ hist.op = "build" /\ ret >= 0

\* the bytes of the produced request after its first empty line
BodyOf(buffer) ==
    LET body_start == Find(buffer, CRLF \o CRLF)
    IN IF body_start = 0 THEN <<>> ELSE SubSeq(buffer, body_start + 4, Len(buffer))

ContentTypeName == <<"C", "o", "n", "t", "e", "n", "t", "-", "T", "y", "p", "e">>

\* the request of a GET has no Content-Length header and no body
GetCarriesNoBody ==
    (Built /\ fr.method = "HTTP_METHOD_GET") =>
        /\ http_get_header(fr.buffer, ContentLengthName, 32).ret = -1
        /\ BodyOf(fr.buffer) = <<>>

\* a request with a body has a Content-Type whose value is not empty
BodyHasContentType ==
    (Built /\ BodyOf(fr.buffer) # <<>>) =>
        LET h == http_get_header(fr.buffer, ContentTypeName, 64)
        IN h.ret = 0 /\ h.value # <<>>

\* C21: whatever body and content type are passed, the request built for a
\* GET carries no Content-Length header and no body, and every request built
\* with a body carries a Content-Type that is not empty.
C21_GetNoBodyAndBodyHasType == GetCarriesNoBody /\ BodyHasContentType

\* a build has returned failure
BuildFailed == pc = "ret" /\ hist.op = "build" /\ ret < 0

\* build fails exactly when the request and its terminator do not fit
FailsWhenTooSmall ==
    (pc = "ret" /\ hist.op = "build") =>
        (ret = -1 <=> Len(ExpectedRequest(fr)) + 1 > fr.buffer_size)

\* C22: build is all-or-nothing: when a step of the serialization would
\* exceed the destination buffer, build returns failure and the destination
\* buffer is as it was before the call, no byte of it written.
C22_BuildAllOrNothing ==
    /\ FailsWhenTooSmall
    /\ BuildFailed => fr.buffer = <<>>

(***************************************************************************)
(* The end of k3s_request on a response of any shape: the first            *)
(* tcp_connection_recv of the receive loop has returned the bytes that     *)
(* arrived (the ring of the firmware holds 2048 of them), the server sends *)
(* no more; it may close, reset, or stay silent.  The request goes on from *)
(* line 359: the completeness test, more calls of recv, parse, cleanup.    *)
(***************************************************************************)
StatusTexts ==
    { <<"H","T","T","P","/","1",".","1"," ","2","0","0"," ","O","K">>,
      <<"H","T","T","P","/","1",".","1"," ","4","0","4"," ","N","F">>,
      <<"H","T","T","P","/","1",".","1"," ","O","K">>,
      <<"H","T","T","P","/","1",".","1">>,
      <<"2","0","0">>,
      <<>> }

\* the end of the status line
LineEnds == { CRLF, <<"\n">> }

ContentLength3Lower == <<"c","o","n","t","e","n","t","-","l","e","n","g","t","h",":","3","\r","\n">>

OtherHeader == <<"X",":"," ","1","\r","\n">>

HeaderBlocks ==
    { <<>>, ContentLength2, ContentLength3Lower, OtherHeader, ContentLength2 \o OtherHeader }

\* the end of the header block: an empty line, nothing, a bare line feed
BlockEnds == { CRLF, <<>>, <<"\n">> }

ResponseBodies == { <<>>, <<"o","k">>, <<"o","k","x">> }

ReceivedTexts ==
    { st \o le \o hb \o be \o bd :
        st \in StatusTexts, le \in LineEnds, hb \in HeaderBlocks, be \in BlockEnds,
        bd \in ResponseBodies }

InitParse ==
    /\ conn = [tcp_connection_init EXCEPT !.state = "CONNECTED", !.pcb = 1,
                                          !.timeout = RECV_TIMEOUT_TICKS]
    /\ net = [NetAlloc(NetInit(TCP_SND_BUF, {}, FALSE), 1) EXCEPT !.pcbs[1] = "est",
                                                                  !.wrote = TRUE]
    /\ now = 0
    /\ pc = "ret"
    /\ \E text \in {t \in ReceivedTexts : Len(t) > 0 /\ Len(t) < HTTP_RESPONSE_BUFFER_SIZE} :
         /\ ret = Len(text)
         /\ fr = [FrInit EXCEPT !.timeout_ms = RECV_TIMEOUT_TICKS,
                                !.size = HTTP_RESPONSE_BUFFER_SIZE - 1,
                                !.data = text]
    /\ hist = [HistInit EXCEPT !.op = "recv", !.pre = "CONNECTED", !.cause = "data"]
    /\ \E api \in {"get", "patch"} :
         rq = [RqInit EXCEPT !.client_initialized = TRUE, !.api = api, !.path = 1,
                             !.has_body = api # "get", !.has_response = api = "get",
                             !.response_size = IF api = "get" THEN 4 ELSE 0,
                             !.at = "recv", !.inited = TRUE]

NextParse ==
    \/ AfterRecv
    \/ RecvWaitIter

SpecParse == InitParse /\ [][NextParse]_vars

(***************************************************************************)
(* Properties of http_parse_response and of the end of k3s_request under   *)
(* SpecParse.                                                              *)
(***************************************************************************)
\* the request went through http_parse_response
Parsed == Done /\ rq.exit \in {"complete", "zero", "full"} /\ rq.total_received > 0

\* no empty line ends the header block: no CRLF right after a CRLF
Unterminated(buffer) == Find(buffer, CRLF \o CRLF) = 0

\* C23: a response without a CRLF, or whose header block is not ended by an
\* empty line, is malformed: http_parse_response returns -1 for it, and the
\* request that received it returns a failure and hands no response to the
\* caller.
C23_UnterminatedIsMalformed ==
    Unterminated(rq.response_buffer) =>
        /\ http_parse_response(rq.response_buffer, rq.total_received).ret = -1
        /\ Done => rq.ret < 0 /\ ~rq.out.set
        /\ Parsed => rq.http_response.ret = -1 /\ rq.ret = -1

\* a response with a status line, a header and no empty line was parsed
C23_Witness ==
    /\ Parsed
    /\ Unterminated(rq.response_buffer)
    /\ Find(rq.response_buffer, ContentLength2) # 0
    /\ rq.has_response

\* the first line of the buffer, without its line end
FirstLine(buffer) ==
    LET e == Find(buffer, CRLF) IN IF e = 0 THEN buffer ELSE SubSeq(buffer, 1, e - 1)

\* the first line carries a number right after its first space
HasStatusCode(buffer) ==
    LET sp == Find(FirstLine(buffer), <<" ">>)
    IN sp # 0 /\ isdigit(At(FirstLine(buffer), sp + 1))

\* C24: a response whose first line carries no numeric status code after
\* its first space is malformed: http_parse_response returns -1 for it, and
\* the request that received it does not return success.
C24_NoStatusIsMalformed ==
    ~HasStatusCode(rq.response_buffer) =>
        /\ http_parse_response(rq.response_buffer, rq.total_received).ret = -1
        /\ Done => rq.ret # 0

(***************************************************************************)
(* http_get_header by itself: a response buffer, a header name and the     *)
(* size of the value buffer are drawn at the start, one call is made.  fr  *)
(* holds the arguments and, after the call, the value stored; ret the      *)
(* value returned.                                                         *)
(***************************************************************************)
\* header lines of the responses, at most this many in one response
MaxHeaderLines == 2

HeaderLines ==
    { <<"c","o","n","t","e","n","t","-","t","y","p","e",":"," ","a","/","b">>,
      <<"C","O","N","T","E","N","T","-","L","E","N","G","T","H",":"," ","1","0">>,
      <<"C","o","n","t","e","n","t","-","L","e","n","g","t","h",":","3">>,
      <<"X",":","\t"," ","1">>,
      <<"x",":"," ","2"," ","3">>,
      <<"X","-","Y",":"," ","4">> }

RECURSIVE JoinLines(_)
\* the header lines, each with its CRLF
JoinLines(ls) == IF ls = <<>> THEN <<>> ELSE Head(ls) \o CRLF \o JoinLines(Tail(ls))

\* bodies: none, one line, a line that reads like a header
LookupBodies ==
    { <<>>, <<"o","k">>, <<"X",":"," ","9","\r","\n">>, <<"{","\n","D","a","t","e",":"," ","d","\n","}">> }

LookupResponses ==
    { StatusLine200 \o JoinLines(ls) \o CRLF \o bd :
        ls \in UNION { [1..n -> HeaderLines] : n \in 0..MaxHeaderLines },
        bd \in LookupBodies }

HeaderNames ==
    { <<"X">>, <<"x","-","y">>, <<"D","a","t","e">>, ContentLengthName,
      <<"C","O","N","T","E","N","T","-","T","Y","P","E">>,
      <<"C","o","n","t","e","n","t">> }

\* sizeof(value_buffer): room for two characters, room for every value
ValueBufferSizes == {3, 32}

InitHeader ==
    /\ fr \in [buffer : LookupResponses, header_name : HeaderNames,
                value_buffer_size : ValueBufferSizes, value : {<<>>}]
    /\ conn = tcp_connection_init
    /\ net = NetInit(TCP_SND_BUF, HttpStreams, FALSE)
    /\ now = 0
    /\ pc = "idle"
    /\ ret = 0
    /\ hist = HistInit
    /\ rq = RqInit

GetHeader ==
    /\ pc = "idle"
    /\ LET h == http_get_header(fr.buffer, fr.header_name, fr.value_buffer_size)
       IN /\ ret' = h.ret
          /\ fr' = [fr EXCEPT !.value = h.value]
    /\ pc' = "ret"
    /\ hist' = [hist EXCEPT !.op = "header"]
    /\ UNCHANGED <<conn, net, now, rq>>

NextHeader == GetHeader

SpecHeader == InitHeader /\ [][NextHeader]_vars

(***************************************************************************)
(* Properties of http_get_header under SpecHeader.                         *)
(***************************************************************************)
\* the positions at which the lines of the buffer start
LineStarts(buffer) ==
    {i \in 1..Len(buffer) : i = 1 \/ buffer[i - 1] = "\n"}

\* the header lines: after the status line, before the empty line
HeaderLineStarts(buffer) ==
    LET blank == Find(buffer, CRLF \o CRLF)
        last == IF blank = 0 THEN Len(buffer) ELSE blank + 1
    IN {i \in LineStarts(buffer) : i > 1 /\ i <= last}

\* the line at i is "name:", whatever the case of the letters
NameMatches(buffer, i, name) ==
    /\ \A k \in 1..Len(name) : tolower(At(buffer, i + k - 1)) = tolower(name[k])
    /\ At(buffer, i + Len(name)) = ":"

\* the value of the header line at i: after the colon and the blanks that
\* follow it, up to the end of the line
ValueOfLine(buffer, i, name) ==
    LET from == i + Len(name) + 1
        start == CHOOSE j \in from..(Len(buffer) + 1) :
                    /\ At(buffer, j) \notin {" ", "\t"}
                    /\ \A k \in from..(j - 1) : At(buffer, k) \in {" ", "\t"}
        end == CHOOSE e \in start..(Len(buffer) + 1) :
                    /\ At(buffer, e) \in {"\r", "\n", NUL}
                    /\ \A k \in start..(e - 1) : At(buffer, k) \notin {"\r", "\n", NUL}
    IN SubSeq(buffer, start, end - 1)

\* the lookup of name among the lines that start at the positions in starts;
\* the value is cut to what the value buffer holds
Lookup(buffer, starts, name, value_buffer_size) ==
    LET hits == {i \in starts : NameMatches(buffer, i, name)}
        first == CHOOSE i \in hits : \A j \in hits : i <= j
        v == ValueOfLine(buffer, first, name)
    IN IF hits = {}
       THEN [ret |-> -1, value |-> <<>>]
       ELSE [ret |-> 0, value |-> SubSeq(v, 1, Min(Len(v), value_buffer_size - 1))]

\* a lookup has returned
LookedUp == pc = "ret" /\ hist.op = "header"

\* the lookup as the code makes it: among all the lines of the buffer
LookupAmongAllLines ==
    LookedUp =>
        LET e == Lookup(fr.buffer, LineStarts(fr.buffer), fr.header_name, fr.value_buffer_size)
        IN ret = e.ret /\ fr.value = e.value

\* C25: the lookup compares the header name without regard to case and
\* returns the value of the first header line of that name, without the
\* spaces and tabs that lead it and up to the end of the line; it returns
\* -1 (not found) when no header of the response has that name.
C25_HeaderLookup ==
    LookedUp =>
        LET e == Lookup(fr.buffer, HeaderLineStarts(fr.buffer), fr.header_name,
                        fr.value_buffer_size)
        IN ret = e.ret /\ fr.value = e.value

\* the request took the response for complete and parsed it
ParsedComplete == Done /\ rq.exit = "complete" /\ rq.http_response.ret = 0

\* the Content-Length the response declares
DeclaredLength == atoi(http_get_header(rq.response_buffer, ContentLengthName, 32).value, 1)

\* the body view starts right after the empty line and has no fewer bytes
\* than the response declares
BodyViewAtLeastDeclared ==
    ParsedComplete =>
        /\ rq.http_response.body = Find(rq.response_buffer, CRLF \o CRLF) + 4
        /\ rq.http_response.body_length >= DeclaredLength
        /\ rq.http_response.body_length = Len(rq.response_buffer) - (rq.http_response.body - 1)

\* C26: when the request takes a response that declares Content-Length N
\* for complete and parses it, the body view of the parsed response starts
\* right after the empty line and is exactly N bytes long.
C26_BodyViewIsDeclaredLength ==
    ParsedComplete =>
        /\ rq.http_response.body = Find(rq.response_buffer, CRLF \o CRLF) + 4
        /\ rq.http_response.body_length = DeclaredLength

(***************************************************************************)
(* memory_manager.c (node_status.c:159-245): a static array of            *)
(* MEMORY_REGION_SIZE bytes, written byte by byte through                  *)
(* memory_manager_write_byte.  The state is kept in conn: memory_region,   *)
(* and oob, which says that a store went to an index outside the array.    *)
(* hist.before is the state before the last call; fr holds the arguments   *)
(* of the last call and what it stored for the caller.                     *)
(***************************************************************************)
\* MEMORY_REGION_SIZE (1024 in config.h)
MEMORY_REGION_SIZE == 4
\* calls the caller makes on the memory manager
MaxMemCalls == 2
\* bits of unsigned int and uint32_t (32 on the target)
UintBits == 16

\* the largest unsigned int and uint32_t
UINT_MAX == 2 ^ UintBits - 1

\* memory_manager_init: the array zeroed (as it is at start-up)
memory_manager_init ==
    [memory_region |-> [i \in 0..(MEMORY_REGION_SIZE - 1) |-> 0], oob |-> FALSE]

\* memory_region[offset] = value
Store(s, offset, value) ==
    IF offset < MEMORY_REGION_SIZE
    THEN [s EXCEPT !.memory_region[offset] = value]
    ELSE [s EXCEPT !.oob = TRUE]

\* a write that does not look at the offset
write_byte_unchecked(s, offset, value) == [s |-> Store(s, offset, value), ret |-> 0]

memory_manager_write_byte(s, offset, value) ==
    IF offset >= MEMORY_REGION_SIZE
    THEN [s |-> s, ret |-> -1]
    ELSE [s |-> Store(s, offset, value), ret |-> 0]

\* has_value: value is not NULL; out: what *value holds before the call
memory_manager_read_byte(s, offset, has_value, out) ==
    IF offset >= MEMORY_REGION_SIZE
    THEN [ret |-> -1, out |-> out]
    ELSE IF ~has_value
    THEN [ret |-> -1, out |-> out]
    ELSE [ret |-> 0, out |-> s.memory_region[offset]]

HexDigits == <<"0","1","2","3","4","5","6","7","8","9","a","b","c","d","e","f">>

\* ch is a digit of the base (10 or 16)
IsDigitOf(ch, base) == \E i \in 1..base : HexDigits[i] = tolower(ch)

DigitOf(ch) == (CHOOSE i \in 1..16 : HexDigits[i] = tolower(ch)) - 1

RECURSIVE ScanDigits(_, _, _, _)
ScanDigits(s, i, base, acc) ==
    IF IsDigitOf(At(s, i), base)
    THEN ScanDigits(s, i + 1, base, acc * base + DigitOf(At(s, i)))
    ELSE [val |-> acc, next |-> i]

RECURSIVE SkipSpace(_, _)
SkipSpace(s, i) == IF isspace(At(s, i)) THEN SkipSpace(s, i + 1) ELSE i

\* the conversions %u (base 10) and %x (base 16) of sscanf at position i0:
\* white space, an optional sign, for %x an optional 0x, digits.  ok: the
\* conversion matched; val: the number the digits spell; next: where the
\* scan goes on
ScanUnsigned(s, i0, base) ==
    LET i == SkipSpace(s, i0)
        j == IF At(s, i) \in {"-", "+"} THEN i + 1 ELSE i
        k == IF base = 16 /\ At(s, j) = "0" /\ tolower(At(s, j + 1)) = "x"
                /\ IsDigitOf(At(s, j + 2), 16)
             THEN j + 2
             ELSE j
        d == ScanDigits(s, k, base, 0)
    IN [ok |-> d.next > k, neg |-> At(s, i) = "-", val |-> d.val, next |-> d.next]

\* the values the conversion may store in an unsigned int: the number, its
\* negation modulo 2^UintBits after a minus sign; a number that does not fit is
\* undefined behaviour, which the target's library turns into UINT_MAX or
\* into the number modulo 2^UintBits
StoredUnsigned(c) ==
    IF c.val <= UINT_MAX
    THEN { IF c.neg THEN (UINT_MAX + 1 - c.val) % (UINT_MAX + 1) ELSE c.val }
    ELSE { UINT_MAX, c.val % (UINT_MAX + 1) }

RECURSIVE MatchLiteral(_, _, _)
\* the characters of the format between the two conversions, matched one
\* by one: the position after them, 0 when the input differs
MatchLiteral(s, i, lit) ==
    IF lit = <<>> THEN i
    ELSE IF At(s, i) = Head(lit) THEN MatchLiteral(s, i + 1, Tail(lit))
    ELSE 0

\* sscanf(token, "%u<lit>%x" or "%u<lit>%u", &offset, &value): the set of
\* outcomes [n, offset, value], n the value returned
Sscanf(token, lit, base) ==
    LET u == ScanUnsigned(token, 1, 10)
        m == IF u.ok THEN MatchLiteral(token, u.next, lit) ELSE 0
        x == ScanUnsigned(token, m, base)
    IN IF ~u.ok THEN { [n |-> 0, offset |-> 0, value |-> 0] }
       ELSE IF m = 0 \/ ~x.ok
       THEN { [n |-> 1, offset |-> o, value |-> 0] : o \in StoredUnsigned(u) }
       ELSE { [n |-> 2, offset |-> o, value |-> v] :
                o \in StoredUnsigned(u), v \in StoredUnsigned(x) }

\* lines 202-204: the three formats, tried in order
ParseToken(token) ==
    LET a == Sscanf(token, <<"=", "0", "x">>, 16)
        b == Sscanf(token, <<"=">>, 16)
        c == Sscanf(token, <<"=">>, 10)
    IN IF \E p \in a : p.n = 2 THEN a
       ELSE IF \E p \in b : p.n = 2 THEN b
       ELSE c

RECURSIVE Strtok(_, _, _)
\* strtok(copy, ","): the runs of characters between commas that are not empty
Strtok(s, i, tok) ==
    IF At(s, i) = NUL
    THEN IF tok = <<>> THEN <<>> ELSE <<tok>>
    ELSE IF s[i] = ","
    THEN (IF tok = <<>> THEN <<>> ELSE <<tok>>) \o Strtok(s, i + 1, <<>>)
    ELSE Strtok(s, i + 1, Append(tok, s[i]))

\* lines 197-215: one token; u is [s, update_count]
UpdateToken(u, token) ==
    { IF p.n = 2
      THEN LET w == memory_manager_write_byte(u.s, p.offset, p.value % 256)
           IN IF w.ret = 0
              THEN [s |-> w.s, update_count |-> u.update_count + 1]
              ELSE [s |-> w.s, update_count |-> u.update_count]
      ELSE u
    : p \in ParseToken(token) }

RECURSIVE UpdateTokens(_, _)
UpdateTokens(u, tokens) ==
    IF tokens = <<>>
    THEN {u}
    ELSE UNION { UpdateTokens(u1, Tail(tokens)) : u1 \in UpdateToken(u, Head(tokens)) }

\* has_updates: updates is not NULL; strdup may fail
memory_manager_update_from_string(s, has_updates, updates) ==
    IF ~has_updates \/ strlen(updates) = 0
    THEN { [s |-> s, update_count |-> 0] }
    ELSE { [s |-> s, update_count |-> 0] }
         \cup UpdateTokens([s |-> s, update_count |-> 0], Strtok(updates, 1, <<>>))

(***************************************************************************)
(* The memory manager and its caller.                                      *)
(***************************************************************************)
\* offsets: in the region, its last byte, the first past it, the largest
MemOffsets == {0, 1, MEMORY_REGION_SIZE - 1, MEMORY_REGION_SIZE, UINT_MAX}

\* uint8_t values
MemValues == {7, 255}

UpdateTokenTexts ==
    { <<"0", "=", "0", "x", "4", "2">>,
      <<"1", "=", "7">>,
      <<"3", "=", "0", "x", "F", "F">>,
      <<"2", "=", "2", "5", "6">>,
      <<"4", "=", "1">>,
      <<"6", "5", "5", "3", "5", "=", "1">>,
      <<"6", "5", "5", "3", "6", "=", "9">>,
      <<"-", "1", "=", "5">>,
      <<" ", "2", "=", "0", "x", "1", "0">>,
      <<"x">>,
      <<"1", "=">> }

\* the tokens that come first in an update string of two
FirstTokenTexts ==
    { <<"6", "5", "5", "3", "6", "=", "9">>,
      <<"0", "=", "0", "x", "4", "2">>,
      <<"x">> }

\* the empty string, one token, two tokens, and commas around a token
UpdateStrings ==
    { <<>> }
    \cup UpdateTokenTexts
    \cup { a \o <<",">> \o b : a \in FirstTokenTexts, b \in UpdateTokenTexts }
    \cup { <<",", ",", "0", "=", "0", "x", "4", "2", ",">> }

MemFrame == [offset |-> 0, value |-> 0, out |-> 0, has_arg |-> TRUE, updates |-> <<>>,
             update_count |-> 0]

MemHist(op) == [op |-> op, before |-> conn]

MemAtRest == rq.calls < MaxMemCalls

MemCall(op, s, f, r) ==
    /\ conn' = s
    /\ fr' = f
    /\ ret' = r
    /\ hist' = MemHist(op)
    /\ pc' = "ret"
    /\ rq' = [rq EXCEPT !.calls = rq.calls + 1]
    /\ UNCHANGED <<net, now>>

MemInit == MemAtRest /\ MemCall("init", memory_manager_init, MemFrame, 0)

MemWrite ==
    /\ MemAtRest
    /\ \E offset \in MemOffsets, value \in MemValues :
        LET w == memory_manager_write_byte(conn, offset, value)
        IN MemCall("write", w.s, [MemFrame EXCEPT !.offset = offset, !.value = value], w.ret)

MemRead ==
    /\ MemAtRest
    /\ \E offset \in MemOffsets, has_value \in BOOLEAN :
        LET r == memory_manager_read_byte(conn, offset, has_value, fr.out)
        IN MemCall("read", conn,
                   [MemFrame EXCEPT !.offset = offset, !.has_arg = has_value, !.out = r.out],
                   r.ret)

MemUpdate ==
    /\ MemAtRest
    /\ \E updates \in UpdateStrings, has_updates \in BOOLEAN :
        \E u \in memory_manager_update_from_string(conn, has_updates, updates) :
            MemCall("update", u.s,
                    [MemFrame EXCEPT !.has_arg = has_updates, !.updates = updates,
                                     !.update_count = u.update_count],
                    0)

InitMem ==
    /\ conn = memory_manager_init
    /\ fr = MemFrame
    /\ hist = [op |-> "none", before |-> memory_manager_init]
    /\ net = NetInit(TCP_SND_BUF, HttpStreams, FALSE)
    /\ now = 0
    /\ pc = "idle"
    /\ ret = 0
    /\ rq = RqInit

NextMem ==
    \/ MemInit
    \/ MemWrite
    \/ MemRead
    \/ MemUpdate

SpecMem == InitMem /\ [][NextMem]_vars

(***************************************************************************)
(* Properties of the memory manager under SpecMem.                         *)
(***************************************************************************)
\* C29: memory_manager_write_byte and memory_manager_read_byte return -1
\* for an offset >= MEMORY_REGION_SIZE and leave the region as it was; a
\* write to an offset in range returns 0, and a read of that offset after it
\* returns 0 and the value written; no call, memory_manager_update_from_string
\* with any update string included, stores a byte outside the region.
C29_MemoryBounds ==
    /\ (hist.op \in {"write", "read"} /\ fr.offset >= MEMORY_REGION_SIZE) =>
           ret = -1 /\ conn = hist.before
    /\ (hist.op = "write" /\ fr.offset < MEMORY_REGION_SIZE) =>
           /\ ret = 0
           /\ memory_manager_read_byte(conn, fr.offset, TRUE, 0)
                 = [ret |-> 0, out |-> fr.value]
    /\ (hist.op = "read" /\ fr.offset < MEMORY_REGION_SIZE /\ fr.has_arg) =>
           ret = 0 /\ fr.out = conn.memory_region[fr.offset] /\ conn = hist.before
    /\ ~conn.oob
    /\ hist.op = "update" =>
           \A i \in 0..(MEMORY_REGION_SIZE - 1) :
               conn.memory_region[i] # hist.before.memory_region[i] =>
                   \E t \in UpdateTokenTexts :
                       /\ Find(fr.updates, t) # 0
                       /\ \E p \in ParseToken(t) : p.n = 2 /\ p.offset = i

\* an update string with an offset past the region and one in it was applied
C29_Witness ==
    /\ hist.op = "update"
    /\ Find(fr.updates, <<"6", "5", "5", "3", "6", "=", "9">>) # 0
    /\ Find(fr.updates, <<"3", "=", "0", "x", "F", "F">>) # 0
    /\ conn.memory_region[3] = 255
    /\ fr.update_count = 1

(***************************************************************************)
(* tls_connection.c: connect with the TLS handshake, send, receive and     *)
(* close.  conn is the tls_connection_t.  net is lwIP and mbedtls as the   *)
(* connection sees them: net.pcb is the state of the connection's PCB      *)
(* ("free", "closed", "syn", "est"), net.arg says that its callbacks are   *)
(* registered with the connection as their arg, net.dns that a DNS query   *)
(* is pending, net.sndbuf is tcp_sndbuf(), net.ssl where the handshake of  *)
(* the ssl context stands ("hello": the client's first message is to be    *)
(* written, "flight": the server's answer is to be read, "over"),          *)
(* net.offered counts the bytes the peer has sent and net.fin says that    *)
(* its FIN has arrived.  The peer sends "h" (a server flight with a        *)
(* trusted certificate), "u" (one with an untrusted certificate), "d"      *)
(* (application data) and "c" (close notify), in any order.                *)
(* hist, for the properties only: op, the call; entry, the state in which  *)
(* it began; hs_calls, the handshake steps of the running connect; hs_ret, *)
(* what the last of them returned; hs_ok, that it returned 0; polls, that  *)
(* the driver was polled since; unpolled, that a step was retried without  *)
(* a poll before it; after_fatal, that a step was attempted after one that *)
(* failed; failed, that the last connect returned a handshake failure;     *)
(* nullop, that lwIP was given a NULL PCB.                                 *)
(***************************************************************************)
TLS_OK == 0

TLS_ERR_INVALID_PARAM == -1

TLS_ERR_DNS == -2

TLS_ERR_CONNECT == -3

TLS_ERR_HANDSHAKE == -4

TLS_ERR_SEND == -5

TLS_ERR_RECV == -6

TLS_ERR_TIMEOUT == -7

TLS_ERR_MEMORY == -8

MBEDTLS_ERR_SSL_WANT_WRITE == -26752

MBEDTLS_ERR_SSL_INTERNAL_ERROR == -27648

MBEDTLS_ERR_SSL_FATAL_ALERT_MESSAGE == -30592

MBEDTLS_ERR_X509_CERT_VERIFY_FAILED == -9984

MBEDTLS_ERR_SSL_PEER_CLOSE_NOTIFY == -30848

\* make_timeout_time_ms(15000) of the handshake, in sleeps of the loop
HANDSHAKE_TIMEOUT_TICKS == 2
\* iterations of the poll loop after tcp_connect (100 in the source)
AGGRESSIVE_POLLS == 1
\* timeout_ms of the caller, in sleeps
TLS_TIMEOUT_TICKS == 1
\* calls the caller makes on the connection
MaxTlsCalls == 3
\* bytes the peer sends during one behaviour
MaxTlsBytes == 2

PeerBytes == {"h", "u", "d", "c"}

TlsNetInit ==
    [pcb |-> "free", arg |-> FALSE, dns |-> FALSE, sndbuf |-> 0,
     ssl |-> "hello", offered |-> 0, fin |-> FALSE]

TlsHistInit ==
    [op |-> "none", entry |-> "IDLE", hs_calls |-> 0, hs_ret |-> 0, hs_ok |-> FALSE,
     polls |-> FALSE, unpolled |-> FALSE, after_fatal |-> FALSE, failed |-> FALSE,
     nullop |-> FALSE]

TlsFrInit == [timeout_ms |-> 0, len |-> 0, sent |-> 0, size |-> 0, data |-> <<>>, i |-> 0]

\* time_reached(conn->timeout)
time_reached(m) == m.now >= m.c.timeout

tls_tcp_connected_callback(c, err_ok) ==
    IF ~err_ok
    THEN [c EXCEPT !.state = "ERROR", !.last_error = TLS_ERR_CONNECT]
    ELSE [c EXCEPT !.state = "CONNECTED"]

tls_tcp_sent_callback(c, len) == [c EXCEPT !.bytes_sent = c.bytes_sent + len]

tls_tcp_err_callback(c) ==
    [c EXCEPT !.state = "ERROR", !.last_error = TLS_ERR_CONNECT, !.pcb = NULL]

\* found = FALSE stands for ipaddr == NULL
tls_dns_callback(c, found) ==
    IF ~found
    THEN [c EXCEPT !.state = "ERROR", !.last_error = TLS_ERR_DNS]
    ELSE [c EXCEPT !.state = "DNS_RESOLVED"]

\* cyw43_arch_poll(): lwIP runs no callback, or one that is due
TlsEvents(m) ==
    (IF m.n.dns
     THEN { [m EXCEPT !.n.dns = FALSE, !.c = tls_dns_callback(m.c, found)] :
              found \in BOOLEAN }
     ELSE {})
    \cup
    (IF m.n.arg /\ m.n.pcb = "syn"
     THEN { [m EXCEPT !.n.pcb = "est", !.c = tls_tcp_connected_callback(m.c, TRUE)] }
     ELSE {})
    \cup
    (IF m.n.arg /\ m.n.pcb \in {"syn", "est"}
     THEN { [m EXCEPT !.n.pcb = "free", !.n.arg = FALSE, !.c = tls_tcp_err_callback(m.c)] }
     ELSE {})
    \cup
    (IF m.n.arg /\ m.n.pcb = "est" /\ ~m.n.fin
     THEN { [m EXCEPT !.n.fin = TRUE, !.c = tls_tcp_recv_callback(m.c, <<>>, TRUE)] }
          \cup
          (IF m.n.offered < MaxTlsBytes
           THEN { [m EXCEPT !.n.offered = m.n.offered + 1,
                            !.c = tls_tcp_recv_callback(m.c, << <<b>> >>, TRUE)] :
                    b \in PeerBytes }
           ELSE {})
     ELSE {})
    \cup
    (IF m.n.arg /\ m.n.pcb = "est" /\ m.n.sndbuf < SmallSndBuf
     THEN { [m EXCEPT !.n.sndbuf = SmallSndBuf,
                      !.c = tls_tcp_sent_callback(m.c, SmallSndBuf - m.n.sndbuf)] }
     ELSE {})

tls_poll(m) == { [x EXCEPT !.h.polls = TRUE] : x \in {m} \cup TlsEvents(m) }

\* tcp_abort(conn->pcb); conn->pcb = NULL;  lwIP frees the PCB and, when an
\* error callback is registered, calls it with ERR_ABRT
TlsAbortPcb(m) ==
    IF m.c.pcb = NULL
    THEN [m EXCEPT !.h.nullop = TRUE]
    ELSE [m EXCEPT !.n.pcb = "free", !.n.arg = FALSE,
                   !.c = [(IF m.n.arg THEN tls_tcp_err_callback(m.c) ELSE m.c)
                            EXCEPT !.pcb = NULL]]

\* bio_send (lines 200-234): tcp_write and tcp_output may fail
bio_send(m, len) ==
    IF m.c.pcb = NULL \/ m.c.connection_closed
    THEN { [m |-> m, ret |-> MBEDTLS_ERR_SSL_CONN_EOF] }
    ELSE IF m.n.sndbuf = 0
    THEN { [m |-> m, ret |-> MBEDTLS_ERR_SSL_WANT_WRITE] }
    ELSE LET can_send == Min(len, m.n.sndbuf)
         IN { [m |-> m, ret |-> MBEDTLS_ERR_SSL_INTERNAL_ERROR] }
            \cup (IF m.n.pcb = "est"
                  THEN { [m |-> [m EXCEPT !.n.sndbuf = m.n.sndbuf - can_send],
                          ret |-> can_send] }
                  ELSE {})

\* mbedtls_ssl_handshake(conn->ssl) with bio_send and bio_recv as its BIO:
\* the steps that are left, until one of them cannot go on.  The
\* configuration requires the server's certificate to verify.
RECURSIVE mbedtls_ssl_handshake(_)
mbedtls_ssl_handshake(m) ==
    IF m.n.ssl = "over"
    THEN { [m |-> m, ret |-> 0] }
    ELSE IF m.n.ssl = "hello"
    THEN UNION { IF s.ret > 0
                 THEN mbedtls_ssl_handshake([s.m EXCEPT !.n.ssl = "flight"])
                 ELSE { s }
               : s \in bio_send(m, 1) }
    ELSE LET r == bio_recv(m.c, 1)
             m1 == [m EXCEPT !.c = r.c]
         IN IF r.ret <= 0
            THEN { [m |-> m1, ret |-> r.ret] }
            ELSE IF r.buf[1] = "h"
            THEN mbedtls_ssl_handshake([m1 EXCEPT !.n.ssl = "over"])
            ELSE IF r.buf[1] = "u"
            THEN { [m |-> m1, ret |-> MBEDTLS_ERR_X509_CERT_VERIFY_FAILED] }
            ELSE { [m |-> m1, ret |-> MBEDTLS_ERR_SSL_FATAL_ALERT_MESSAGE] }

\* mbedtls_ssl_write on a context whose handshake is over
mbedtls_ssl_write(m, len) == bio_send(m, len)

\* mbedtls_ssl_read on a context whose handshake is over: buf is what it
\* stored in the caller's buffer
mbedtls_ssl_read(m, len) ==
    LET r == bio_recv(m.c, 1)
        m1 == [m EXCEPT !.c = r.c]
    IN IF r.ret <= 0
       THEN [m |-> m1, ret |-> r.ret, buf |-> <<>>]
       ELSE IF r.buf[1] = "c"
       THEN [m |-> m1, ret |-> MBEDTLS_ERR_SSL_PEER_CLOSE_NOTIFY, buf |-> <<>>]
       ELSE [m |-> m1, ret |-> 1, buf |-> r.buf]

\* a loop that takes every result for a would-block
NeverFatal(r) == FALSE

\* line 443: the result is neither want-read nor want-write
HandshakeFatal(r) ==
    r # MBEDTLS_ERR_SSL_WANT_READ /\ r # MBEDTLS_ERR_SSL_WANT_WRITE

\* the call of mbedtls_ssl_handshake in the loop condition (line 433), with
\* what the history keeps of it
HandshakeCall(m) ==
    { [m |-> [s.m EXCEPT !.h.hs_calls = Min(m.h.hs_calls + 1, 2),
                         !.h.hs_ret = s.ret,
                         !.h.hs_ok = (s.ret = 0),
                         !.h.polls = FALSE,
                         !.h.unpolled = m.h.unpolled \/ (m.h.hs_calls > 0 /\ ~m.h.polls),
                         !.h.after_fatal = m.h.after_fatal
                                           \/ (/\ m.h.hs_calls > 0
                                               /\ m.h.hs_ret # 0
                                               /\ m.h.hs_ret # MBEDTLS_ERR_SSL_WANT_READ
                                               /\ m.h.hs_ret # MBEDTLS_ERR_SSL_WANT_WRITE)],
       ret |-> s.ret]
    : s \in mbedtls_ssl_handshake(m) }

\* lines 433-492: one pass of the handshake loop
TlsHandshakeStep(m) ==
    UNION {
      IF s.ret = 0
      THEN { Return([s.m EXCEPT !.c.state = "READY", !.c.handshake_complete = TRUE], TLS_OK) }
      ELSE UNION {
             IF HandshakeFatal(s.ret)
             THEN { Return([TlsAbortPcb(m1) EXCEPT !.h.failed = TRUE], TLS_ERR_HANDSHAKE) }
             ELSE { IF time_reached(m2)
                    THEN Return(TlsAbortPcb(m2), TLS_ERR_TIMEOUT)
                    ELSE Wait(Sleep(m2), "handshake")
                  : m2 \in tls_poll(m1) }
           : m1 \in tls_poll(s.m) }
    : s \in HandshakeCall(m) }

\* lines 418-432
TlsHandshakeStart(m) ==
    Wait([m EXCEPT !.c.state = "HANDSHAKING",
                   !.c.timeout = make_timeout_time_ms(m, HANDSHAKE_TIMEOUT_TICKS)],
         "handshake")

\* lines 397-416, from the test of the loop
TlsConnLoop(m) ==
    IF m.c.state = "CONNECTING"
    THEN Wait(m, "tls_conn_wait")
    ELSE IF m.c.state = "ERROR"
    THEN Return(IF m.c.pcb # NULL THEN TlsAbortPcb(m) ELSE m, m.c.last_error)
    ELSE TlsHandshakeStart(m)

\* lines 398-407: one pass of the loop
TlsConnWaitStep(m) ==
    { IF time_reached(m1)
      THEN Return(TlsAbortPcb(m1), TLS_ERR_TIMEOUT)
      ELSE TlsConnLoop(Sleep(m1))
    : m1 \in tls_poll(m) }

\* lines 382-389, from the test of the loop
TlsAggressiveLoop(m) ==
    IF m.f.i < AGGRESSIVE_POLLS THEN Wait(m, "aggressive") ELSE TlsConnLoop(m)

\* lines 383-388: one pass; sleep_us(100) is too short for the clock to move
TlsAggressiveStep(m) ==
    { IF m1.c.state # "CONNECTING"
      THEN TlsConnLoop(m1)
      ELSE TlsAggressiveLoop([m1 EXCEPT !.f.i = m.f.i + 1])
    : m1 \in tls_poll(m) }

\* lines 295-389: after the DNS wait.  netif_default may be NULL, tcp_new,
\* tcp_bind and tcp_connect may fail
TlsAfterDns(m) ==
    IF m.c.state = "ERROR"
    THEN { Return(m, m.c.last_error) }
    ELSE LET m1 == [m EXCEPT !.c.pcb = 1, !.n.pcb = "closed", !.n.sndbuf = SmallSndBuf,
                             !.n.fin = FALSE]
             m2 == [m1 EXCEPT !.n.arg = TRUE, !.c.state = "CONNECTING"]
         IN { Return(m, TLS_ERR_CONNECT),
              Return([m EXCEPT !.c.pcb = NULL], TLS_ERR_MEMORY),
              Return(TlsAbortPcb(m1), TLS_ERR_CONNECT),
              Return(TlsAbortPcb(m2), TLS_ERR_CONNECT),
              TlsAggressiveLoop([m2 EXCEPT !.n.pcb = "syn", !.f.i = 0]) }

\* lines 286-293, from the test of the loop
TlsDnsLoop(m) ==
    IF m.c.state = "DNS_RESOLVING" THEN { Wait(m, "tls_dns_wait") } ELSE TlsAfterDns(m)

\* lines 287-292: one pass of the loop
TlsDnsWaitStep(m) ==
    UNION { IF time_reached(m1)
            THEN { Return(m1, TLS_ERR_TIMEOUT) }
            ELSE TlsDnsLoop(Sleep(m1))
          : m1 \in tls_poll(m) }

\* lines 262-283; has_host: hostname is not NULL.  dns_gethostbyname returns
\* ERR_OK, ERR_INPROGRESS or an error.  What the history says of the last
\* connect ends here
tls_connection_connect(m, has_host) ==
    IF ~has_host
    THEN { Return(m, TLS_ERR_INVALID_PARAM) }
    ELSE LET m1 == [m EXCEPT !.c.timeout = make_timeout_time_ms(m, m.f.timeout_ms),
                             !.c.state = "DNS_RESOLVING",
                             !.h.hs_ok = FALSE, !.h.failed = FALSE]
         IN TlsDnsLoop([m1 EXCEPT !.c.state = "DNS_RESOLVED"])
            \cup TlsDnsLoop([m1 EXCEPT !.n.dns = TRUE])
            \cup { Return(m1, TLS_ERR_DNS) }

\* lines 505-524, from the test of the loop
TlsSendLoop(m) ==
    IF m.f.sent < m.f.len THEN Wait(m, "tls_send") ELSE Return(m, m.f.sent)

\* lines 506-521: one pass of the loop
TlsSendStep(m) ==
    UNION {
      IF s.ret > 0
      THEN { TlsSendLoop([s.m EXCEPT !.f.sent = m.f.sent + s.ret]) }
      ELSE IF s.ret = MBEDTLS_ERR_SSL_WANT_WRITE \/ s.ret = MBEDTLS_ERR_SSL_WANT_READ
      THEN { IF time_reached(m1)
             THEN Return(m1, TLS_ERR_TIMEOUT)
             ELSE Wait(Sleep(m1), "tls_send")
           : m1 \in tls_poll(s.m) }
      ELSE { Return(s.m, TLS_ERR_SEND) }
    : s \in mbedtls_ssl_write(m, m.f.len - m.f.sent) }

\* a send that does not look at the state
tls_send_any_state(m, has_data) ==
    IF ~has_data
    THEN Return(m, TLS_ERR_INVALID_PARAM)
    ELSE TlsSendLoop([m EXCEPT !.c.timeout = make_timeout_time_ms(m, m.f.timeout_ms),
                               !.f.sent = 0])

\* lines 496-503; has_data: data is not NULL
tls_connection_send(m, has_data) ==
    IF ~has_data \/ m.c.state # "READY"
    THEN Return(m, TLS_ERR_INVALID_PARAM)
    ELSE TlsSendLoop([m EXCEPT !.c.timeout = make_timeout_time_ms(m, m.f.timeout_ms),
                               !.f.sent = 0])

\* lines 537-557: one pass of the loop
TlsRecvStep(m) ==
    LET s == mbedtls_ssl_read(m, m.f.size)
    IN IF s.ret > 0
       THEN { Return([s.m EXCEPT !.f.data = s.buf], s.ret) }
       ELSE IF s.ret = MBEDTLS_ERR_SSL_WANT_READ \/ s.ret = MBEDTLS_ERR_SSL_WANT_WRITE
       THEN { IF time_reached(m1)
              THEN Return(m1, TLS_ERR_TIMEOUT)
              ELSE Wait(Sleep(m1), "tls_recv")
            : m1 \in tls_poll(s.m) }
       ELSE IF s.ret = 0 \/ s.ret = MBEDTLS_ERR_SSL_PEER_CLOSE_NOTIFY
       THEN { Return([s.m EXCEPT !.c.connection_closed = TRUE], 0) }
       ELSE { Return(s.m, TLS_ERR_RECV) }

\* lines 528-536; has_buffer: buffer is not NULL
tls_connection_recv(m, has_buffer) ==
    IF ~has_buffer \/ m.c.state # "READY"
    THEN Return(m, TLS_ERR_INVALID_PARAM)
    ELSE Wait([m EXCEPT !.c.timeout = make_timeout_time_ms(m, m.f.timeout_ms)], "tls_recv")

\* tls_connection_close (lines 562-588); mbedtls_ssl_close_notify writes
\* through bio_send and its result is dropped
tls_connection_close(m) ==
    { LET m2 == IF m1.c.pcb # NULL
                THEN [m1 EXCEPT !.n.pcb = "free", !.n.arg = FALSE, !.c.pcb = NULL]
                ELSE m1
      IN [m2 EXCEPT !.c.state = "CLOSED", !.c.connection_closed = TRUE]
    : m1 \in IF m.c.handshake_complete
             THEN { s.m : s \in bio_send(m, 1) }
             ELSE {m} }

(***************************************************************************)
(* The TLS connection and its caller.  The caller connects a connection    *)
(* that holds no PCB; tls_connection_init is given an ssl context that was *)
(* set up anew.                                                            *)
(***************************************************************************)
TlsSendLens == {0, 1, SmallSndBuf + 1}

TlsEnter(op, f) ==
    [Machine EXCEPT !.now = 0, !.f = f,
                    !.h = [hist EXCEPT !.op = op, !.entry = conn.state]]

TlsAtRest == pc \in {"idle", "ret"} /\ rq.calls < MaxTlsCalls

TlsCalled == rq' = [rq EXCEPT !.calls = rq.calls + 1]

TlsCallInit ==
    /\ TlsAtRest
    /\ net.pcb = "free"
    /\ Apply(Return([TlsEnter("init", TlsFrInit) EXCEPT !.c = tls_connection_init,
                                                        !.n.ssl = "hello"], TLS_OK))
    /\ TlsCalled

TlsCallConnect ==
    /\ TlsAtRest
    /\ net.pcb = "free"
    /\ \E has_host \in BOOLEAN :
         \E o \in tls_connection_connect(
                     [TlsEnter("connect", [TlsFrInit EXCEPT !.timeout_ms = TLS_TIMEOUT_TICKS])
                        EXCEPT !.h.hs_calls = 0, !.h.hs_ret = 0, !.h.polls = FALSE,
                               !.h.unpolled = FALSE, !.h.after_fatal = FALSE],
                     has_host) :
            Apply(o)
    /\ TlsCalled

TlsCallSend ==
    /\ TlsAtRest
    /\ \E len \in TlsSendLens, has_data \in BOOLEAN :
         Apply(tls_connection_send(
                  TlsEnter("send", [TlsFrInit EXCEPT !.timeout_ms = TLS_TIMEOUT_TICKS,
                                                     !.len = len]), has_data))
    /\ TlsCalled

TlsCallRecv ==
    /\ TlsAtRest
    /\ \E has_buffer \in BOOLEAN :
         Apply(tls_connection_recv(
                  TlsEnter("recv", [TlsFrInit EXCEPT !.timeout_ms = TLS_TIMEOUT_TICKS,
                                                     !.size = 1]), has_buffer))
    /\ TlsCalled

TlsCallClose ==
    /\ TlsAtRest
    /\ \E m \in tls_connection_close(TlsEnter("close", TlsFrInit)) :
         Apply(Return(m, TLS_OK))
    /\ TlsCalled

TlsDnsWaitIter ==
    /\ pc = "tls_dns_wait"
    /\ \E o \in TlsDnsWaitStep(Machine) : Apply(o)
    /\ UNCHANGED rq

TlsAggressiveIter ==
    /\ pc = "aggressive"
    /\ \E o \in TlsAggressiveStep(Machine) : Apply(o)
    /\ UNCHANGED rq

TlsConnWaitIter ==
    /\ pc = "tls_conn_wait"
    /\ \E o \in TlsConnWaitStep(Machine) : Apply(o)
    /\ UNCHANGED rq

TlsHandshakeIter ==
    /\ pc = "handshake"
    /\ \E o \in TlsHandshakeStep(Machine) : Apply(o)
    /\ UNCHANGED rq

TlsSendIter ==
    /\ pc = "tls_send"
    /\ \E o \in TlsSendStep(Machine) : Apply(o)
    /\ UNCHANGED rq

TlsRecvIter ==
    /\ pc = "tls_recv"
    /\ \E o \in TlsRecvStep(Machine) : Apply(o)
    /\ UNCHANGED rq

InitTls ==
    /\ conn = tls_connection_init
    /\ net = TlsNetInit
    /\ now = 0
    /\ pc = "idle"
    /\ ret = 0
    /\ fr = TlsFrInit
    /\ hist = TlsHistInit
    /\ rq = RqInit

NextTls ==
    \/ TlsCallInit
    \/ TlsCallConnect
    \/ TlsCallSend
    \/ TlsCallRecv
    \/ TlsCallClose
    \/ TlsDnsWaitIter
    \/ TlsAggressiveIter
    \/ TlsConnWaitIter
    \/ TlsHandshakeIter
    \/ TlsSendIter
    \/ TlsRecvIter

SpecTls == InitTls /\ [][NextTls]_vars

(***************************************************************************)
(* Properties of the TLS connection under SpecTls.                         *)
(***************************************************************************)
TlsReturned(op) == pc = "ret" /\ hist.op = op

WouldBlock == {MBEDTLS_ERR_SSL_WANT_READ, MBEDTLS_ERR_SSL_WANT_WRITE}

\* the running or last connect made a handshake step, and the last one
\* returned neither success nor a would-block
HandshakeStepFailed ==
    hist.hs_calls > 0 /\ hist.hs_ret # 0 /\ hist.hs_ret \notin WouldBlock

\* the PCB of the connection is back with lwIP and the connection has let go
\* of it
HandleReleased == conn.pcb = NULL /\ net.pcb = "free" /\ ~net.arg

C30_HandshakeLoop ==
    /\ [](/\ (pc = "handshake" /\ hist.hs_calls > 0) =>
                /\ hist.hs_ret \in WouldBlock
                /\ hist.polls
                /\ now <= conn.timeout
          /\ pc = "handshake" => conn.timeout - now <= HANDSHAKE_TIMEOUT_TICKS
          /\ ~hist.unpolled
          /\ ~hist.after_fatal
          /\ (TlsReturned("connect") /\ hist.hs_calls > 0 /\ hist.hs_ret \in WouldBlock) =>
                ret = TLS_ERR_TIMEOUT /\ now >= conn.timeout /\ HandleReleased
          /\ (TlsReturned("connect") /\ HandshakeStepFailed) =>
                ret = TLS_ERR_HANDSHAKE /\ HandleReleased)
    /\ [][(pc = "handshake" /\ pc' = "handshake") => now' = now + 1]_vars

\* the handshake was retried after a want-read and then ran into its deadline
C30_Witness ==
    /\ TlsReturned("connect")
    /\ hist.hs_calls = 2
    /\ hist.hs_ret = MBEDTLS_ERR_SSL_WANT_READ
    /\ ret = TLS_ERR_TIMEOUT
    /\ now = HANDSHAKE_TIMEOUT_TICKS

(***************************************************************************)
(* bio_send and bio_recv by themselves, on a connection after its          *)
(* handshake: any fill of the ring, the peer's FIN seen or not, the PCB    *)
(* held or taken away by the error callback, any room in the send buffer.  *)
(* hist keeps the connection and lwIP as they were before the call.        *)
(***************************************************************************)
BioLens == 1..(SmallSndBuf + 1)

BioHist(op) ==
    [TlsHistInit EXCEPT !.op = op] @@ [before_c |-> conn, before_n |-> net]

InitBio ==
    /\ \E p \in {NULL, 1}, closed \in BOOLEAN, sb \in 0..SmallSndBuf,
          head \in 0..(TLS_RECV_RING_SIZE - 1), tail \in 0..(TLS_RECV_RING_SIZE - 1) :
         /\ conn = [tls_connection_init EXCEPT
                       !.pcb = p, !.state = "READY", !.handshake_complete = TRUE,
                       !.connection_closed = closed,
                       !.recv_head = head, !.recv_tail = tail,
                       !.recv_ring = [i \in 0..(TLS_RECV_RING_SIZE - 1) |-> Byte(i)]]
         /\ net = [TlsNetInit EXCEPT !.pcb = IF p = NULL THEN "free" ELSE "est",
                                     !.arg = (p # NULL), !.sndbuf = sb, !.ssl = "over"]
    /\ hist = [TlsHistInit @@ [before_c |-> conn, before_n |-> net] EXCEPT !.op = "none"]
    /\ now = 0
    /\ pc = "idle"
    /\ ret = 0
    /\ fr = TlsFrInit
    /\ rq = RqInit

BioSend ==
    \E len \in BioLens :
        \E s \in bio_send([Machine EXCEPT !.h = BioHist("bio_send"),
                                          !.f = [TlsFrInit EXCEPT !.len = len]], len) :
            /\ Apply([m |-> s.m, pc |-> "ret", ret |-> s.ret])
            /\ UNCHANGED rq

BioRecv ==
    \E len \in BioLens :
        LET r == bio_recv(conn, len)
        IN /\ conn' = r.c
           /\ fr' = [TlsFrInit EXCEPT !.len = len, !.data = r.buf]
           /\ ret' = r.ret
           /\ hist' = BioHist("bio_recv")
           /\ pc' = "ret"
           /\ UNCHANGED <<net, now, rq>>

NextBio == BioSend \/ BioRecv

SpecBio == InitBio /\ [][NextBio]_vars

(***************************************************************************)
(* Properties of bio_send and bio_recv under SpecBio.                      *)
(***************************************************************************)
\* what bio_recv returns: want-read or end of stream on an empty ring, else
\* the bytes asked for or the bytes there are, whichever is less
BioRecvResult ==
    hist.op = "bio_recv" =>
        LET available == tls_connection_available(hist.before_c)
        IN /\ (available = 0 /\ ~hist.before_c.connection_closed) =>
                  ret = MBEDTLS_ERR_SSL_WANT_READ
           /\ (available = 0 /\ hist.before_c.connection_closed) =>
                  ret = MBEDTLS_ERR_SSL_CONN_EOF
           /\ available > 0 =>
                  /\ ret = Min(fr.len, available)
                  /\ Len(fr.data) = ret
                  /\ tls_connection_available(conn) = available - ret

\* what bio_send returns: end of stream when the PCB is gone or the
\* connection is closed, want-write when the send buffer has no room, else
\* the bytes asked for or the room there is, whichever is less
BioSendResult ==
    hist.op = "bio_send" =>
        IF hist.before_c.pcb = NULL \/ hist.before_c.connection_closed
        THEN ret = MBEDTLS_ERR_SSL_CONN_EOF
        ELSE IF hist.before_n.sndbuf = 0
        THEN ret = MBEDTLS_ERR_SSL_WANT_WRITE
        ELSE ret = Min(fr.len, hist.before_n.sndbuf)

\* neither call polls the driver or lets the clock move
BioNeverPolls == ~hist.polls /\ now = 0

\* C31: bio_recv and bio_send never poll or sleep; bio_recv returns
\* want-read on an empty ring whose peer has not closed, end of stream on an
\* empty ring whose peer has closed, and otherwise min(len, available)
\* bytes; bio_send returns end of stream when the PCB is gone, want-write
\* when the send buffer has no room, and otherwise min(len, tcp_sndbuf), the
\* number of bytes written.
C31_BioWouldBlock == BioNeverPolls /\ BioRecvResult /\ BioSendResult

(***************************************************************************)
(* Who moves the indices of the receive ring.                              *)
(***************************************************************************)
\* a step in which the peer's bytes were handed to the arrival callback
BytesArrived == net'.pos > net.pos

\* under SpecConn: the tail moves only in a step of tcp_connection_recv; the
\* head and the stored bytes change only in a step in which the arrival
\* callback was given bytes; tcp_connection_init alone sets both anew
TcpIndexOwners ==
    hist'.op # "init" =>
        /\ conn'.recv_tail # conn.recv_tail => hist'.op = "recv"
        /\ (conn'.recv_head # conn.recv_head \/ conn'.recv_ring # conn.recv_ring) =>
               BytesArrived

\* under SpecRing, where callback and read are steps of their own: an
\* arrival leaves the tail alone, a read leaves the head and the bytes alone
RingIndexOwners ==
    [][/\ hist'.op = "arrive" => conn'.recv_tail = conn.recv_tail
       /\ hist'.op = "read" =>
              conn'.recv_head = conn.recv_head /\ conn'.recv_ring = conn.recv_ring]_vars

\* under SpecTls: the tail moves only in the handshake and in recv, which
\* read through bio_recv; the head and the bytes change only when the peer's
\* bytes arrive
TlsIndexOwners ==
    [][hist'.op # "init" =>
         /\ conn'.recv_tail # conn.recv_tail => hist'.op \in {"connect", "recv"}
         /\ (conn'.recv_head # conn.recv_head \/ conn'.recv_ring # conn.recv_ring) =>
                net'.offered > net.offered]_vars

ConnectFailed == Returned("connect") /\ ret # TCP_OK /\ hist.alloc # NULL

\* the PCB that connect allocated is back in the pool, uncoupled from the
\* connection object
AllocReleased == net.pcbs[hist.alloc] = "free" /\ ~net.arg[hist.alloc]

\* the PCB a connection holds is never one that went back to the pool, so no
\* PCB is released twice
NoDanglingPcb == conn.pcb # NULL => net.pcbs[conn.pcb] # "free"

\* the same for a connect entered while every PCB of the pool was free
FreshConnectReleases == (ConnectFailed /\ ~hist.held) => (conn.pcb = NULL /\ AllocReleased)

\* C33: whenever connect returns a failure the connection holds no handle,
\* and the handle that connect allocated has been released exactly once, by
\* connect or by the driver's error callback.
C33_FailedConnectReleases ==
    /\ (Returned("connect") /\ ret # TCP_OK) => conn.pcb = NULL
    /\ ConnectFailed => AllocReleased
    /\ NoDanglingPcb

(***************************************************************************)
(* The error callback during a poll of send.                               *)
(***************************************************************************)
\* a step of send in which the error callback took the PCB away
ErrorDuringSend == hist.op = "send" /\ hist'.op = "send" /\ conn.pcb # NULL /\ conn'.pcb = NULL

\* send returns a failure in the step in which the error callback ran
SendFailsAtOnce == [][ErrorDuringSend => (pc' = "ret" /\ ret' < 0)]_vars

\* send applies no lwIP function to a PCB that is gone
SendNeverUsesLostPcb == [](hist.op = "send" => ~hist.nullop)

\* C34: when the error callback fires during a poll inside the wait loop of
\* send (PCB freed, state ERROR, conn->pcb NULL), send re-checks the
\* connection after the poll and returns a failure without using the PCB
\* again.
C34_SendRechecksAfterError == SendFailsAtOnce /\ SendNeverUsesLostPcb

(***************************************************************************)
(* Bytes that were in the ring when the connection ended.                  *)
(***************************************************************************)
\* the peer's FIN has arrived on a connection that is still CONNECTED
PeerClosed == conn.state = "CONNECTED" /\ net.fin

\* the driver's error callback has ended the connection
ErrorEnded == conn.state = "ERROR" /\ conn.error_code = TCP_ERR_CONNECT /\ conn.pcb = NULL

\* a receive with a buffer of one byte or more has returned and left bytes
\* in the ring
RecvLeftBytes == Returned("recv") /\ hist.cause # "param" /\ ~ring_is_empty(conn)

\* C35: bytes that were stored in the ring before the connection ended, by
\* the peer's close or by the error callback, are still delivered by the
\* receive calls that follow; end of stream or an error is reported only
\* once the ring is empty.
C35_BufferedBytesDelivered == (RecvLeftBytes /\ (PeerClosed \/ ErrorEnded)) => ret > 0

(***************************************************************************)
(* Callbacks that are still registered when a call has returned.           *)
(***************************************************************************)
\* lwIP holds a callback with the connection object as its arg: a PCB
\* registered by tcp_arg, or a DNS query that has not been answered
CallbackPending == net.dns \/ \E p \in Pcbs : net.arg[p]

\* a connect that was entered with every PCB in the pool has failed
FreshConnectFailed == ConnectFailed /\ ~hist.held

\* the DNS wait of connect ran into its deadline
DnsTimedOut == FreshConnectFailed /\ ret = TCP_ERR_TIMEOUT /\ "syn" \notin hist.cb

\* C36: callbacks bound to a connection run only inside the polls of that
\* connection's own wait loops: once connect has returned a failure no DNS,
\* connected, arrival or error callback that carries the connection object
\* can still fire, in particular not a DNS result after the DNS timeout.
C36_NoCallbackAfterFailure == FreshConnectFailed => ~CallbackPending

(***************************************************************************)
(* The lines the header lookup looks at.                                   *)
(***************************************************************************)
\* no header line of the buffer has the name looked up
NoSuchHeader ==
    \A i \in HeaderLineStarts(fr.buffer) : ~NameMatches(fr.buffer, i, fr.header_name)

\* C37: the header lookup considers the header section only: a name that
\* occurs in no header line is not found, even when the status line or a
\* line of the body starts with that name and a colon.
C37_LookupInHeadersOnly == (LookedUp /\ NoSuchHeader) => ret = -1

(***************************************************************************)
(* The response buffer of k3s_request.                                     *)
(***************************************************************************)
\* the receive of the loop that is running or has just returned was asked
\* for the space that is left, less one byte for the terminator, and has
\* stored no more than that
RecvWithinSpace ==
    (rq.at = "recv" /\ hist.op = "recv") =>
        /\ fr.size = HTTP_RESPONSE_BUFFER_SIZE - rq.total_received - 1
        /\ fr.size >= 1
        /\ Len(fr.data) <= fr.size

\* C38: in the receive loop of k3s_request the number of bytes stored in
\* the response buffer never exceeds HTTP_RESPONSE_BUFFER_SIZE - 1: each
\* receive is asked for at most the space that remains less one, so the
\* terminator written after the received bytes lies inside the buffer.
C38_TerminatorInsideBuffer ==
    /\ rq.total_received <= HTTP_RESPONSE_BUFFER_SIZE - 1
    /\ Len(rq.response_buffer) = rq.total_received
    /\ RecvWithinSpace

\* the loop ended with the buffer full, and the last receive left bytes in
\* the ring because it was asked for less than the ring held
C38_Witness ==
    /\ Done
    /\ rq.exit = "full"
    /\ rq.total_received = HTTP_RESPONSE_BUFFER_SIZE - 1
    /\ ~ring_is_empty(conn)

(***************************************************************************)
(* The peer's FIN and the wait loop of recv.                               *)
(***************************************************************************)
\* a receive is in its wait loop: the ring was empty and it goes on polling
RecvWaiting == pc = "recv_wait" /\ hist.op = "recv"

\* C39: a graceful close of the peer (the arrival callback called without
\* payload) is recorded in the connection; from then on a receive that
\* finds the ring empty returns 0 at once instead of polling until its
\* timeout.
C39_PeerCloseEndsReceive == RecvWaiting => ~net.fin

(***************************************************************************)
(* The kubelet server (kubelet_server.c).  One accepted connection at a    *)
(* time is followed: conn is the kubelet_conn_t that kubelet_accept        *)
(* allocated, net.heap says whether that block is allocated ("live") or    *)
(* was given to free() ("freed"), net.pcb is the state of the accepted     *)
(* PCB in lwIP and net.arg says that its callbacks are registered with the *)
(* block as their arg.  After tcp_close() lwIP keeps the PCB until the     *)
(* close is through ("finwait" when the server closed first, "lastack"     *)
(* when the peer did) and goes on calling the callbacks registered for it. *)
(* hist counts the calls of free() on the block and the responses written  *)
(* and records a read or write of the block after it was freed.            *)
(***************************************************************************)
ERR_OK == 0

ERR_VAL == -6

ERR_ABRT == -13

\* sizeof(conn->recv_buffer) (512 in kubelet_server.c)
KUBELET_RECV_BUFFER_SIZE == 14

\* connections accepted in one behaviour
MaxAccepts == 2

GetHealthz == <<"G","E","T"," ","/","h","e","a","l","t","h","z">>

GetMetrics == <<"G","E","T"," ","/","m","e","t","r","i","c","s">>

GetAny == <<"G","E","T"," ">>

\* the segments a peer sends
KubeletPayloads ==
    { GetHealthz, GetMetrics, GetAny \o <<"/">>, <<"G","E">>,
      <<"T"," ","/","h","e","a","l","t","h","z">>, <<"P","U","T"," ","/","x">>,
      <<"a","b","c","d","e">> }

KubeletConnInit == [pcb |-> NULL, recv_buffer |-> <<>>, recv_len |-> 0, response_sent |-> FALSE]

KubeletNetInit == [pcb |-> "none", arg |-> FALSE, heap |-> "none"]

KubeletHistInit == [op |-> "none", frees |-> 0, uaf |-> FALSE, responses |-> 0, accepts |-> 0]

\* the kubelet state k = [c, n, h] on which the callbacks work
Kubelet == [c |-> conn, n |-> net, h |-> hist]

\* free(conn)
kubelet_free(k) ==
    [k EXCEPT !.n.heap = "freed", !.h.frees = Min(k.h.frees + 1, 3)]

\* a read or write of *conn
Deref(k) == [k EXCEPT !.h.uaf = k.h.uaf \/ k.n.heap # "live"]

\* tcp_close(pcb): the PCB starts its close and stays with lwIP, callbacks
\* and arg as they were
kubelet_tcp_close(k, peer_closed) ==
    [k EXCEPT !.n.pcb = IF k.n.pcb = "est"
                        THEN (IF peer_closed THEN "lastack" ELSE "finwait")
                        ELSE IF peer_closed THEN "gone" ELSE k.n.pcb]

\* the text of the buffer as strstr sees it: up to the first NUL
CStr(buffer) ==
    LET nuls == {i \in 1..Len(buffer) : buffer[i] = NUL}
    IN IF nuls = {} THEN buffer
       ELSE SubSeq(buffer, 1, (CHOOSE i \in nuls : \A j \in nuls : i <= j) - 1)

\* lines 146-158: the response the request in the buffer gets
ChooseResponse(text) ==
    IF Find(text, GetHealthz) # 0 THEN "healthz"
    ELSE IF Find(text, GetMetrics) # 0 THEN "metrics"
    ELSE IF Find(text, GetAny) # 0 THEN "not_found"
    ELSE "none"

\* kubelet_accept (lines 86-114): err_ok and has_pcb are its arguments,
\* alloc_ok says that calloc succeeded
kubelet_accept(k, err_ok, has_pcb, alloc_ok) ==
    IF ~err_ok \/ ~has_pcb
    THEN [k |-> k, ret |-> ERR_VAL]
    ELSE IF ~alloc_ok
    THEN [k |-> [k EXCEPT !.n = [KubeletNetInit EXCEPT !.pcb = "gone"]], ret |-> ERR_ABRT]
    ELSE [k |-> [k EXCEPT !.c = [KubeletConnInit EXCEPT !.pcb = 1],
                          !.n = [pcb |-> "est", arg |-> TRUE, heap |-> "live"],
                          !.h.frees = 0, !.h.uaf = FALSE, !.h.responses = 0],
          ret |-> ERR_OK]

\* kubelet_recv (lines 116-181) called with a pbuf of payload p; write_ok
\* says that tcp_write succeeds
kubelet_recv_data(k, p, err_ok, write_ok) ==
    IF ~err_ok
    THEN k
    ELSE LET k0 == Deref(k)
             space_left == KUBELET_RECV_BUFFER_SIZE - k0.c.recv_len
             copy_len == Min(Len(p), space_left)
             len == k0.c.recv_len + copy_len
             copied == SubSeq(k0.c.recv_buffer, 1, k0.c.recv_len) \o SubSeq(p, 1, copy_len)
             buffer == IF len < KUBELET_RECV_BUFFER_SIZE
                       THEN copied
                       ELSE [copied EXCEPT ![KUBELET_RECV_BUFFER_SIZE] = NUL]
             k1 == [k0 EXCEPT !.c.recv_buffer = buffer, !.c.recv_len = len]
             response == ChooseResponse(CStr(buffer))
         IN IF response # "none" /\ ~k1.c.response_sent
            THEN LET k2 == IF write_ok
                           THEN [k1 EXCEPT !.c.response_sent = TRUE,
                                           !.h.responses = Min(k1.h.responses + 1, 2)]
                           ELSE k1
                 IN kubelet_free(kubelet_tcp_close(k2, FALSE))
            ELSE k1

\* kubelet_recv called with p == NULL: the peer has closed
kubelet_recv_closed(k) == kubelet_free(kubelet_tcp_close(k, TRUE))

\* kubelet_err (lines 183-190): lwIP has freed the PCB before it calls
kubelet_err(k) ==
    LET k1 == [k EXCEPT !.n.pcb = "gone", !.n.arg = FALSE]
    IN IF k.n.arg THEN kubelet_free(k1) ELSE k1

(***************************************************************************)
(* The callbacks as lwIP calls them from cyw43_arch_poll().                *)
(***************************************************************************)
KubeletApply(k, op, v) ==
    /\ conn' = k.c
    /\ net' = k.n
    /\ hist' = [k.h EXCEPT !.op = op]
    /\ ret' = v
    /\ UNCHANGED <<now, pc, fr, rq>>

\* a connection comes in once the one before it is over
KubeletAccept ==
    /\ net.pcb \in {"none", "gone"}
    /\ hist.accepts < MaxAccepts
    /\ \E err_ok \in BOOLEAN, has_pcb \in BOOLEAN, alloc_ok \in BOOLEAN :
         LET r == kubelet_accept([Kubelet EXCEPT !.h.accepts = hist.accepts + 1],
                                 err_ok, has_pcb, alloc_ok)
         IN KubeletApply(r.k, "accept", r.ret)

\* a segment arrives on the open connection
KubeletData ==
    /\ net.pcb = "est" /\ net.arg
    /\ \E p \in KubeletPayloads, write_ok \in BOOLEAN :
         KubeletApply(kubelet_recv_data(Kubelet, p, TRUE, write_ok), "data", ERR_OK)

\* a segment arrives after the server's tcp_close(): lwIP drops it, aborts
\* the PCB and calls the error callback
KubeletLateData ==
    /\ net.pcb = "finwait" /\ net.arg
    /\ KubeletApply(kubelet_err(Kubelet), "late_data", ERR_OK)

\* the peer's FIN arrives: lwIP calls the arrival callback without a pbuf
KubeletFin ==
    /\ net.pcb \in {"est", "finwait"} /\ net.arg
    /\ KubeletApply(kubelet_recv_closed(Kubelet), "fin", ERR_OK)

\* a reset of the peer, or lwIP giving up on the PCB
KubeletError ==
    /\ net.pcb \in {"est", "finwait", "lastack"} /\ net.arg
    /\ KubeletApply(kubelet_err(Kubelet), "err", ERR_OK)

\* the close goes through and lwIP frees the PCB without a callback
KubeletClosed ==
    /\ net.pcb \in {"finwait", "lastack"}
    /\ KubeletApply([Kubelet EXCEPT !.n.pcb = "gone", !.n.arg = FALSE], "closed", ERR_OK)

InitKubelet ==
    /\ conn = KubeletConnInit
    /\ net = KubeletNetInit
    /\ hist = KubeletHistInit
    /\ now = 0
    /\ pc = "idle"
    /\ ret = ERR_OK
    /\ fr = FrInit
    /\ rq = RqInit

NextKubelet ==
    \/ KubeletAccept
    \/ KubeletData
    \/ KubeletLateData
    \/ KubeletFin
    \/ KubeletError
    \/ KubeletClosed

SpecKubelet == InitKubelet /\ [][NextKubelet]_vars

\* the block of an accepted connection is never given to free() twice
FreedAtMostOnce == hist.frees <= 1

\* the block has been freed once the connection is over
FreedWhenOver == (net.pcb = "gone" /\ net.heap # "none") => hist.frees >= 1

\* C40: in the kubelet server the state allocated for an accepted
\* connection is freed exactly once and never used after it was freed, for
\* every order of data-arrival, peer-close and error callbacks, those that
\* come after the response was written and the connection closed included;
\* at most one response is written per accepted connection.
C40_ConnFreedOnce ==
    /\ FreedAtMostOnce
    /\ FreedWhenOver
    /\ ~hist.uaf
    /\ hist.responses <= 1
====
